---- MODULE Spec2Model ----
(***************************************************************************)
(* docx_flow: the selection / condition / action pipeline of DocxEditor   *)
(* and FluentSelector, and the section index built at construction.       *)
(*                                                                         *)
(* A document is its body (the children of <w:body>, in order) and its    *)
(* section list.  Text is a sequence of one-character strings.  Element   *)
(* references held by selectors are proxy objects: a proxy names the XML  *)
(* node it wraps and has an identity of its own (the call that made it).  *)
(***************************************************************************)
EXTENDS Integers, Sequences, FiniteSets, TLC

\* ---------------------------------------------------------------- bounds
\* Largest number of block elements (paragraphs, tables) in a body.
MaxBody == 2
\* Largest number of FluentSelector objects alive at once.
MaxSelectors == 2
\* Largest body of the documents the section index builder is run on alone.
MaxIndexBody == 4
\* Largest body of the documents of the select / where / apply chain.
MaxChainBody == 3
\* Largest number of execute calls made with action objects on one element.
MaxCalls == 2
\* Longest run text, and longest old and new text of a replace action.
MaxText == 3
MaxPattern == 2
\* Largest explicit font size of a run at the start, in half-points, and the
\* largest n of the size strings "+n" and "-n".
MaxHalfPoints == 4
MaxDelta == 2
\* Largest number of columns and of rows of the tables laid out.
MaxCols == 4
MaxRows == 2
\* Largest page width and height of a section, besides the A4 measures.
MaxPage == 3
\* Rows and cells per row of a table whose borders are removed.
MaxBorderRows == 1
MaxBorderCols == 2
\* Actions executed one after another on a table's layout.
MaxLayoutCalls == 2
\* Columns of a table whose layout is set.
MaxLayoutCols == 2
\* Tab stops of a paragraph before the first call, and the largest offset of
\* a tab stop in centimetres.
\* Tables of a document an action is applied to in one call.
MaxBatchBody == 3
\* Paragraphs of a document whose text is split into runs.
MaxSplitBody == 3
MaxTabs == 2
MaxTabCm == 2

\* ------------------------------------------------------ program constants
\* Inches(8.27) and Inches(11.69) in EMU (914400 per inch), the A4 defaults.
A4Width == 7562088
A4Height == 10689336

VARIABLES
    document,                 \* DocxEditor.document: [body, sections]
    constructed,              \* DocxEditor.__init__ has returned
    paragraph_section_map,    \* DocxEditor._paragraph_section_map
    table_section_map,        \* DocxEditor._table_section_map
    build,                    \* locals of _build_element_section_map
    lists,                    \* heap of Python list objects: list id -> elements
    selectors,                \* FluentSelector objects: id -> [elements: list id]
    last,                     \* the last call: its receiver, arguments and result
    direct                    \* an action object and the element it is executed on directly

vars == <<document, constructed, paragraph_section_map, table_section_map,
          build, lists, selectors, last, direct>>

\* ------------------------------------------------------------------ text
Marker == <<"m">>
Hello == <<"h">>
MarkerHello == <<"m", "h">>
Empty == <<>>

\* Python: old in s
Contains(s, old) ==
    \E i \in 1..(Len(s) - Len(old) + 1) : SubSeq(s, i, i + Len(old) - 1) = old

\* A replace that stops after the first occurrence, as s.replace(old, new, 1).
ReplaceFirstFrom(s, old, new, i) ==
    IF \E k \in i..(Len(s) - Len(old) + 1) : SubSeq(s, k, k + Len(old) - 1) = old
    THEN LET k == CHOOSE k \in i..(Len(s) - Len(old) + 1) :
                      /\ SubSeq(s, k, k + Len(old) - 1) = old
                      /\ \A j \in i..(k - 1) : SubSeq(s, j, j + Len(old) - 1) # old
         IN  SubSeq(s, i, k - 1) \o new \o SubSeq(s, k + Len(old), Len(s))
    ELSE SubSeq(s, i, Len(s))

\* Python: s.replace(old, new) for a non-empty old, scanning s from position i
RECURSIVE ReplaceFrom(_, _, _, _)
ReplaceFrom(s, old, new, i) ==
    IF i > Len(s) THEN <<>>
    ELSE IF i + Len(old) - 1 <= Len(s) /\ SubSeq(s, i, i + Len(old) - 1) = old
         THEN new \o ReplaceFrom(s, old, new, i + Len(old))
         ELSE <<s[i]>> \o ReplaceFrom(s, old, new, i + 1)

\* Python: s.replace("", new) puts new before every character and at the end
RECURSIVE Intersperse(_, _, _)
Intersperse(s, new, i) ==
    IF i > Len(s) THEN new ELSE new \o <<s[i]>> \o Intersperse(s, new, i + 1)

StrReplace(s, old, new) ==
    IF old = <<>> THEN Intersperse(s, new, 1) ELSE ReplaceFrom(s, old, new, 1)

RECURSIVE Concat(_)
Concat(ss) == IF ss = <<>> THEN <<>> ELSE Head(ss) \o Concat(Tail(ss))

\* ------------------------------------------------------------- documents
Para(brk, rs) == [kind |-> "p", sectPr |-> brk, runs |-> rs, alignment |-> "none"]
Cell(rs) == [paragraphs |-> << [runs |-> rs] >>]
Tbl(n, rws) == [kind |-> "tbl", cols |-> n, rows |-> rws]
Sentinel == [kind |-> "sectPr"]
Sect == [orientation |-> "portrait", page_width |-> A4Width, page_height |-> A4Height]

\* Paragraph.text: the concatenation of the run texts
ParagraphText(p) == Concat(p.runs)

\* The blocks documents are made of: a paragraph "mh" in one run, a paragraph
\* "h" that ends a section, and a one-row table of two columns.
ParagraphChoices == {Para(FALSE, <<MarkerHello>>), Para(TRUE, <<Hello>>)}

TableChoices == {Tbl(2, << <<Cell(<<Marker>>), Cell(<<Hello>>)>> >>)}

BlockChoices == ParagraphChoices \cup TableChoices

RECURSIVE SeqsUpTo(_, _)
SeqsUpTo(S, n) ==
    IF n = 0 THEN {<<>>}
    ELSE LET shorter == SeqsUpTo(S, n - 1)
         IN  shorter \cup {Append(q, x) : q \in shorter, x \in S}

\* document.sections: one per paragraph-level sectPr plus the body's own
BreakCount(b) == Cardinality({i \in 1..Len(b) : b[i].kind = "p" /\ b[i].sectPr})

MakeDocument(blocks) ==
    [body |-> blocks \o <<Sentinel>>,
     sections |-> [j \in 1..(BreakCount(blocks) + 1) |-> Sect]]

\* ---------------------------------------------------- section index builder
\* The state of the loop of _build_element_section_map: the two maps and the
\* three counters, with pos the number of body children already visited.
BuildStart ==
    [pmap |-> <<>>, tmap |-> <<>>, section_idx |-> 0, para_idx |-> 0,
     table_idx |-> 0, pos |-> 0]

\* A break-bearing paragraph advancing the ordinal before it is recorded.
BuildStepEarly(st, block) ==
    IF block.kind = "p"
    THEN LET s == IF block.sectPr THEN st.section_idx + 1 ELSE st.section_idx
         IN  [st EXCEPT !.pmap = (st.para_idx :> s) @@ st.pmap,
                        !.section_idx = s,
                        !.para_idx = st.para_idx + 1,
                        !.pos = st.pos + 1]
    ELSE IF block.kind = "tbl"
    THEN [st EXCEPT !.tmap = (st.table_idx :> st.section_idx) @@ st.tmap,
                    !.table_idx = st.table_idx + 1,
                    !.pos = st.pos + 1]
    ELSE [st EXCEPT !.pos = st.pos + 1]

\* A break-bearing paragraph setting the ordinal to 1 instead of advancing it.
BuildStepReset(st, block) ==
    IF block.kind = "p"
    THEN [st EXCEPT !.pmap = (st.para_idx :> st.section_idx) @@ st.pmap,
                    !.section_idx = IF block.sectPr THEN 1 ELSE st.section_idx,
                    !.para_idx = st.para_idx + 1,
                    !.pos = st.pos + 1]
    ELSE IF block.kind = "tbl"
    THEN [st EXCEPT !.tmap = (st.table_idx :> st.section_idx) @@ st.tmap,
                    !.table_idx = st.table_idx + 1,
                    !.pos = st.pos + 1]
    ELSE [st EXCEPT !.pos = st.pos + 1]

\* One iteration of the loop over document.element.body.
BuildStep(st, block) ==
    IF block.kind = "p"
    THEN [st EXCEPT !.pmap = (st.para_idx :> st.section_idx) @@ st.pmap,
                    !.section_idx = IF block.sectPr THEN st.section_idx + 1
                                                    ELSE st.section_idx,
                    !.para_idx = st.para_idx + 1,
                    !.pos = st.pos + 1]
    ELSE IF block.kind = "tbl"
    THEN [st EXCEPT !.tmap = (st.table_idx :> st.section_idx) @@ st.tmap,
                    !.table_idx = st.table_idx + 1,
                    !.pos = st.pos + 1]
    ELSE [st EXCEPT !.pos = st.pos + 1]

\* The whole loop, from the state st on.
RECURSIVE BuildLoop(_, _)
BuildLoop(b, st) ==
    IF st.pos >= Len(b) THEN st ELSE BuildLoop(b, BuildStep(st, b[st.pos + 1]))

BuildElementSectionMap(b) == BuildLoop(b, BuildStart)

\* ------------------------------------------------------ element references
\* A proxy object (Paragraph, Table, Section): the node it wraps (the body
\* position of a <w:p> or <w:tbl>, the position of a <w:sectPr> in the section
\* list) and the call that created the object.  document.paragraphs,
\* document.tables and document.sections create new proxies every time they
\* are read.
Proxy(k, n, by) == [kind |-> k, node |-> n, proxy |-> by]

RECURSIVE PositionsOfKind(_, _, _)
PositionsOfKind(b, k, i) ==
    IF i > Len(b) THEN <<>>
    ELSE (IF b[i].kind = k THEN <<i>> ELSE <<>>) \o PositionsOfKind(b, k, i + 1)

\* document.paragraphs / document.tables / document.sections, read by `by`
DocParagraphs(by) ==
    LET ps == PositionsOfKind(document.body, "p", 1)
    IN  [j \in 1..Len(ps) |-> Proxy("p", ps[j], by)]

DocTables(by) ==
    LET ts == PositionsOfKind(document.body, "tbl", 1)
    IN  [j \in 1..Len(ts) |-> Proxy("tbl", ts[j], by)]

DocSections(by) ==
    [j \in 1..Len(document.sections) |-> Proxy("sect", j, by)]

\* Python: seq.index(x), 0-based; -1 stands for ValueError
IndexOf(seq, x) ==
    IF \E i \in 1..Len(seq) : seq[i] = x
    THEN (CHOOSE i \in 1..Len(seq) :
              seq[i] = x /\ \A j \in 1..(i - 1) : seq[j] # x) - 1
    ELSE -1

\* Python: d.get(k, default)
DictGet(d, k, default) == IF k \in DOMAIN d THEN d[k] ELSE default

\* DocxEditor.get_element_section_index.  Paragraphs and tables are found by
\* their XML node.  Sections are looked up with list.index on a list of newly
\* created Section proxies; Section defines no equality of its own, so the
\* comparison is object identity.
GetElementSectionIndex(element) ==
    IF element.kind = "p"
    THEN LET paragraphs == DocParagraphs(0)
             all_paras_xml == [j \in 1..Len(paragraphs) |-> paragraphs[j].node]
             para_index == IndexOf(all_paras_xml, element.node)
         IN  IF para_index = -1 THEN 0
             ELSE DictGet(paragraph_section_map, para_index, 0)
    ELSE IF element.kind = "tbl"
    THEN LET tables == DocTables(0)
             all_tables_xml == [j \in 1..Len(tables) |-> tables[j].node]
             table_index == IndexOf(all_tables_xml, element.node)
         IN  IF table_index = -1 THEN 0
             ELSE DictGet(table_section_map, table_index, 0)
    ELSE IF element.kind = "sect"
    THEN LET idx == IndexOf(DocSections(0), element)
         IN  IF idx = -1 THEN 0 ELSE idx
    ELSE 0

\* -------------------------------------------------------------- conditions
RegexCondition(pat) == [type |-> "regex", text |-> pat, n |-> 0, func |-> "none"]
TableColumnCondition(k) == [type |-> "columns", text |-> <<>>, n |-> k, func |-> "none"]
TableTextCondition(t) == [type |-> "tabletext", text |-> t, n |-> 0, func |-> "none"]
FunctionCondition(f, k) == [type |-> "function", text |-> <<>>, n |-> k, func |-> f]

\* The element a proxy refers to
Node(d, element) ==
    IF element.kind = "sect" THEN d.sections[element.node] ELSE d.body[element.node]

\* The caller-supplied predicates, and the two closures of the selector.  The
\* result is "true", "false" or "raise" (the predicate raised an exception).
\*   text_has_marker  : lambda e: "m" in e.text
\*   second_char_is_h : lambda e: e.text[1] == "h"
\*                      (only a Paragraph has .text; a text shorter than two
\*                      characters raises IndexError)
\*   in_section      : check_func of FluentSelector.in_section
\*   from_section    : check_func of FluentSelector.from_section
CallPredicate(f, k, element) ==
    IF f = "text_has_marker"
    THEN IF element.kind = "p"
         THEN IF Contains(ParagraphText(Node(document, element)), Marker)
              THEN "true" ELSE "false"
         ELSE "raise"
    ELSE IF f = "second_char_is_h"
    THEN IF element.kind = "p"
         THEN LET text == ParagraphText(Node(document, element))
              IN  IF Len(text) < 2 THEN "raise"
                  ELSE IF text[2] = "h" THEN "true" ELSE "false"
         ELSE "raise"
    ELSE IF f = "in_section"
    THEN IF GetElementSectionIndex(element) = k THEN "true" ELSE "false"
    ELSE IF f = "from_section"
    THEN IF GetElementSectionIndex(element) >= k THEN "true" ELSE "false"
    ELSE "raise"

Bool(b) == IF b THEN "true" ELSE "false"

\* A function condition without the try/except: the exception escapes.
FunctionCheckNoCatch(f, k, element) == CallPredicate(f, k, element)

\* FunctionCondition.check: try: return self.func(element); except: return False
FunctionCheck(f, k, element) ==
    LET r == CallPredicate(f, k, element)
    IN  IF r = "raise" THEN "false" ELSE r

\* A pattern searched in each run by itself.
RegexCheckInRuns(pat, element) ==
    Bool(element.kind = "p"
         /\ \E j \in 1..Len(Node(document, element).runs) :
                Contains(Node(document, element).runs[j], pat))

\* A pattern tried at the start of the text only (pattern.match).
RegexCheckAtStart(pat, element) ==
    Bool(element.kind = "p"
         /\ Len(pat) <= Len(ParagraphText(Node(document, element)))
         /\ SubSeq(ParagraphText(Node(document, element)), 1, Len(pat)) = pat)

\* RegexCondition.check: pattern.search(element.text) on a Paragraph, False on
\* anything else.  Patterns are literal text.
RegexCheck(pat, element) ==
    Bool(element.kind = "p"
         /\ Contains(ParagraphText(Node(document, element)), pat))

\* Condition.check of the four condition classes: "true", "false", or "raise"
\* when an exception leaves check.
Check(cond, element) ==
    IF cond.type = "regex"
    THEN RegexCheck(cond.text, element)
    ELSE IF cond.type = "columns"
    THEN Bool(element.kind = "tbl" /\ Node(document, element).cols = cond.n)
    ELSE IF cond.type = "tabletext"
    THEN Bool(element.kind = "tbl"
         /\ LET rows == Node(document, element).rows
            IN  \E r \in 1..Len(rows) :
                  \E c \in 1..Len(rows[r]) :
                    \E q \in 1..Len(rows[r][c].paragraphs) :
                       Contains(ParagraphText(rows[r][c].paragraphs[q]), cond.text))
    ELSE FunctionCheck(cond.func, cond.n, element)

\* ----------------------------------------------------------------- actions
ReplaceTextAction(old, new) == [name |-> "replace", old |-> old, new |-> new, arg |-> "none"]
AlignParagraphAction(a) == [name |-> "align", old |-> <<>>, new |-> <<>>, arg |-> a]
SetSectionOrientationAction(o) == [name |-> "orient", old |-> <<>>, new |-> <<>>, arg |-> o]

\* AlignParagraphAction.__init__: alignment_map.get(alignment.lower())
AlignmentOf(a) == IF a \in {"left", "center", "right", "justify"} THEN a ELSE "none"

\* A replacement made on the paragraph text as a whole, which leaves the
\* paragraph with a single run (paragraph.text = paragraph.text.replace(...)).
ReplaceInParagraphText(para, old, new) ==
    [para EXCEPT !.runs = << StrReplace(Concat(para.runs), old, new) >>]

\* ReplaceTextAction.replace_in_paragraph
ReplaceInParagraph(para, old, new) ==
    [para EXCEPT !.runs = [j \in 1..Len(para.runs) |->
                              IF Contains(para.runs[j], old)
                              THEN StrReplace(para.runs[j], old, new)
                              ELSE para.runs[j]]]

ReplaceInTable(tbl, old, new) ==
    [tbl EXCEPT !.rows = [r \in 1..Len(tbl.rows) |->
        [c \in 1..Len(tbl.rows[r]) |->
            [tbl.rows[r][c] EXCEPT !.paragraphs =
                [q \in 1..Len(tbl.rows[r][c].paragraphs) |->
                    ReplaceInParagraph(tbl.rows[r][c].paragraphs[q], old, new)]]]]]

\* SetSectionOrientationAction.execute on a Section
Max(a, b) == IF a >= b THEN a ELSE b
Min(a, b) == IF a <= b THEN a ELSE b

\* Width and height exchanged whatever their order.
OrientSectionSwapped(sect) ==
    LET unset == sect.page_width = 0 \/ sect.page_height = 0
        w == IF unset THEN A4Width ELSE sect.page_width
        h == IF unset THEN A4Height ELSE sect.page_height
    IN  [sect EXCEPT !.orientation = "landscape",
                     !.page_width = h,
                     !.page_height = w]

OrientSection(sect) ==
    LET unset == sect.page_width = 0 \/ sect.page_height = 0
        w == IF unset THEN A4Width ELSE sect.page_width
        h == IF unset THEN A4Height ELSE sect.page_height
    IN  [sect EXCEPT !.orientation = "landscape",
                     !.page_width = Max(w, h),
                     !.page_height = Min(w, h)]

\* An optional value: None, or a value that is set.
None == [some |-> FALSE, v |-> 0]
Some(x) == [some |-> TRUE, v |-> x]
\* Python truth of an optional number: neither None nor 0
Truthy(x) == x.some /\ x.v # 0

\* SetFontSizeAction.__init__ for the strings "+n" and "-n" and the number n.
\* Font sizes are kept in half-points, the unit of the run's size attribute:
\* Pt(n) is 2n half-points.
SetFontSizeAction(form, n) ==
    [name |-> "font",
     absolute_size |-> IF form = "number" THEN Some(2 * n) ELSE None,
     relative_change |-> IF form = "+" THEN Some(n)
                         ELSE IF form = "-" THEN Some(-n) ELSE None]

\* A relative change that stops at one point where the new size would not
\* be positive.
FontSizeOfRunAtLeastOnePoint(action, size) ==
    IF Truthy(action.absolute_size) THEN action.absolute_size
    ELSE IF Truthy(action.relative_change) /\ size.some
    THEN Some(Max(2, size.v + 2 * action.relative_change.v))
    ELSE size

\* A relative change written without the test that the new size is positive.
FontSizeOfRunUnchecked(action, size) ==
    IF Truthy(action.absolute_size) THEN action.absolute_size
    ELSE IF Truthy(action.relative_change) /\ size.some
    THEN Some(size.v + 2 * action.relative_change.v)
    ELSE size

\* The body of the loop of SetFontSizeAction._apply_to_paragraph: the size of
\* a run after it, from the size before (None: no explicit size).
FontSizeOfRun(action, size) ==
    IF Truthy(action.absolute_size) THEN action.absolute_size
    ELSE IF Truthy(action.relative_change)
    THEN IF size.some
         THEN LET new_size == size.v + 2 * action.relative_change.v
              IN  IF new_size > 0 THEN Some(new_size) ELSE size
         ELSE size
    ELSE size

\* SetFontSizeAction._apply_to_paragraph; sizes[j] is the font size of runs[j]
ApplyToParagraph(action, para) ==
    [para EXCEPT !.sizes = [j \in 1..Len(para.sizes) |->
                               FontSizeOfRun(action, para.sizes[j])]]

\* SetFontSizeAction.execute on a table: every paragraph of every cell
FontSizeInTable(action, tbl) ==
    [tbl EXCEPT !.rows = [r \in 1..Len(tbl.rows) |->
        [c \in 1..Len(tbl.rows[r]) |->
            [tbl.rows[r][c] EXCEPT !.paragraphs =
                [q \in 1..Len(tbl.rows[r][c].paragraphs) |->
                    ApplyToParagraph(action, tbl.rows[r][c].paragraphs[q])]]]]]

\* ---- table layout
\* A table with its layout properties: tblLayout is the list of the w:type
\* of the <w:tblLayout> nodes of <w:tblPr> and tblW the list of its <w:tblW>
\* nodes, in document order (find takes the first, append adds a last one),
\* grid the widths of the grid columns, allow_autofit the attribute of
\* that name on the Table object, and every cell has its <w:tcW> node.  A
\* row has one cell per column.  has_autofit tells whether the Table class
\* of the installed library has an autofit property.
NoWidth == [w |-> 0, type |-> "none"]
Width(w, type) == [w |-> w, type |-> type]

LayoutTable(n, nrows, layout, tblW, tcW, has) ==
    [kind |-> "tbl", cols |-> n,
     rows |-> [r \in 1..nrows |-> [c \in 1..n |-> [tcW |-> tcW]]],
     tblLayout |-> layout, tblW |-> tblW, grid |-> [c \in 1..n |-> 0],
     allow_autofit |-> "unset", has_autofit |-> has]

\* AutoFitTableAction.__init__ once the ratio is accepted.  A ratio is kept as
\* its numerator over RatioDen; these ratios are exact as floats.
RatioDen == 32
\* Python: t.lower(), for the type names written with capitals
Lower(t) ==
    IF t = "Contents" THEN "contents"
    ELSE IF t = "WINDOW" THEN "window"
    ELSE IF t = "Fixed" THEN "fixed"
    ELSE IF t = "Other" THEN "other"
    ELSE t

AutoFitTableAction(autofit_type, first_col_ratio) ==
    [name |-> "autofit", autofit_type |-> Lower(autofit_type),
     first_col_ratio |-> first_col_ratio]

\* A validation that lets the end points 0 and 1 through.
RatioAcceptedInclusive(first_col_ratio) ==
    ~first_col_ratio.some \/ (0 <= first_col_ratio.v /\ first_col_ratio.v <= RatioDen)

\* AutoFitTableAction.__init__: not (first_col_ratio is not None and
\* not (0 < first_col_ratio < 1))
RatioAccepted(first_col_ratio) ==
    ~(first_col_ratio.some
      /\ ~(0 < first_col_ratio.v /\ first_col_ratio.v < RatioDen))

\* The widths with the rest divided among all the columns.
RatioWidthsAmongAll(num, col_count) ==
    LET first_col_pct == (num * 5000) \div RatioDen
        other_col_pct == (5000 - first_col_pct) \div col_count
    IN  [i \in 1..col_count |-> IF i = 1 THEN first_col_pct ELSE other_col_pct]

\* The list widths of AutoFitTableAction.execute for the ratio num / RatioDen;
\* int() of a positive float is the integer part.
RatioWidths(num, col_count) ==
    IF col_count > 1
    THEN LET first_col_pct == (num * 5000) \div RatioDen
             remaining_pct == 5000 - first_col_pct
             other_col_pct == remaining_pct \div (col_count - 1)
         IN  [i \in 1..col_count |-> IF i = 1 THEN first_col_pct ELSE other_col_pct]
    ELSE <<5000>>

\* Inches(6.5) in EMU and in twips
FixedTotalWidth == 5943600
FixedTotalTwips == 9360

\* A column width rounded to the nearest EMU.
EqualColumnWidthRounded(total_width, col_count) ==
    (2 * total_width + col_count) \div (2 * col_count)

\* int(total_width / col_count)
EqualColumnWidth(total_width, col_count) == total_width \div col_count

\* tbl_pr.remove(tbl_pr.find(tag)): the first node with the tag, if any
RemoveFirst(nodes) == IF nodes = <<>> THEN <<>> ELSE Tail(nodes)

\* A clean-up that removes nothing.
ClearLayoutNothing(tbl) == tbl

\* The loop over 'w:tblLayout' and 'w:tblW' that removes the old settings
ClearLayout(tbl) ==
    [tbl EXCEPT !.tblLayout = RemoveFirst(@), !.tblW = RemoveFirst(@)]

\* AutoFitTableAction.execute on a table: the table afterwards and whether
\* the call raised (rows[0] of a table without rows).
AutoFitTable(action, tbl) ==
    LET cleared == ClearLayout(tbl)
    IN  IF action.first_col_ratio.some
        THEN IF tbl.cols = 0 THEN [element |-> cleared, raised |-> FALSE]
             ELSE LET set == [cleared EXCEPT !.tblLayout = Append(@, "fixed"),
                                             !.tblW = Append(@, Width(5000, "pct")),
                                             !.allow_autofit = "false"]
                      widths == RatioWidths(action.first_col_ratio.v, tbl.cols)
                  IN  IF Len(tbl.rows) = 0
                      THEN [element |-> set, raised |-> TRUE]
                      ELSE [element |->
                               [set EXCEPT !.rows[1] =
                                   [i \in 1..Len(tbl.rows[1]) |->
                                       [tbl.rows[1][i] EXCEPT
                                           !.tcW = Width(widths[i], "pct")]]],
                            raised |-> FALSE]
        ELSE IF action.autofit_type = "contents"
        THEN [element |-> [cleared EXCEPT !.allow_autofit = "true",
                                          !.tblLayout = Append(@, "autofit"),
                                          !.tblW = Append(@, Width(0, "auto"))],
              raised |-> FALSE]
        ELSE IF action.autofit_type = "window"
        THEN [element |-> [cleared EXCEPT !.allow_autofit = "true",
                                          !.tblLayout = Append(@, "autofit"),
                                          !.tblW = Append(@, Width(5000, "pct"))],
              raised |-> FALSE]
        ELSE IF action.autofit_type = "fixed"
        THEN [element |->
                 IF tbl.cols > 0
                 THEN [cleared EXCEPT !.allow_autofit = "false",
                                      !.tblLayout = Append(@, "fixed"),
                                      !.tblW = Append(@, Width(FixedTotalTwips, "dxa")),
                                      !.grid = [c \in 1..tbl.cols |->
                                          EqualColumnWidth(FixedTotalWidth, tbl.cols)]]
                 ELSE [cleared EXCEPT !.allow_autofit = "false",
                                      !.tblLayout = Append(@, "fixed")],
              raised |-> FALSE]
        ELSE [element |-> cleared, raised |-> FALSE]

\* SetTableWidthAction.__init__; the width is kept as its twips
SetTableWidthAction(width) == [name |-> "tablewidth", width |-> width]

\* A set-table-width that adds its nodes after the ones that are there.
SetTableWidthAppending(action, tbl) ==
    [tbl EXCEPT !.allow_autofit = "false",
                !.tblLayout = Append(@, "fixed"),
                !.tblW = Append(@, Width(action.width, "dxa"))]

\* SetTableWidthAction.execute on a table: a layout node is made, as fixed,
\* only when there is none; the first width node, made when there is none,
\* gets the width and the type dxa.
SetTableWidth(action, tbl) ==
    [tbl EXCEPT
       !.allow_autofit = "false",
       !.tblLayout = IF @ = <<>> THEN <<"fixed">> ELSE @,
       !.tblW = IF @ = <<>> THEN <<Width(action.width, "dxa")>>
                ELSE [@ EXCEPT ![1] = Width(action.width, "dxa")]]

\* SetTableColumnWidthAction.__init__; widths are in twips
SetTableColumnWidthAction(widths) == [name |-> "colwidth", widths |-> widths]

\* table.autofit = False where Table has that property (the layout type
\* becomes fixed), table.allow_autofit = False otherwise
AutoFitOff(tbl) ==
    IF tbl.has_autofit
    THEN [tbl EXCEPT !.tblLayout = IF @ = <<>> THEN <<"fixed">>
                                   ELSE [@ EXCEPT ![1] = "fixed"]]
    ELSE [tbl EXCEPT !.allow_autofit = "false"]

\* cell.width = width on the cells of every row, column by column
WithCellWidths(tbl, widths) ==
    [tbl EXCEPT !.rows = [r \in 1..Len(tbl.rows) |->
        [c \in 1..Len(tbl.rows[r]) |->
            IF c <= Len(widths)
            THEN [tbl.rows[r][c] EXCEPT !.tcW = Width(widths[c], "dxa")]
            ELSE tbl.rows[r][c]]]]

\* The length test made after autofit was switched off.
SetColumnWidthsCheckedLate(action, tbl) ==
    IF tbl.cols # Len(action.widths)
    THEN [element |-> AutoFitOff(tbl), raised |-> TRUE]
    ELSE [element |-> WithCellWidths(AutoFitOff(tbl), action.widths),
          raised |-> FALSE]

\* SetTableColumnWidthAction.execute on a table
SetColumnWidths(action, tbl) ==
    IF tbl.cols # Len(action.widths)
    THEN [element |-> tbl, raised |-> TRUE]
    ELSE [element |-> WithCellWidths(AutoFitOff(tbl), action.widths),
          raised |-> FALSE]

\* An execute that gives the orientation the action was made with: portrait
\* with the smaller measure as the width.
SetSectionOrientationAsAsked(action, sect) ==
    IF action.arg = "portrait"
    THEN [OrientSection(sect) EXCEPT !.orientation = "portrait",
                                     !.page_width = OrientSection(sect).page_height,
                                     !.page_height = OrientSection(sect).page_width]
    ELSE OrientSection(sect)

\* SetSectionOrientationAction.execute on a section: self.orientation is
\* stored by __init__ and not read.
SetSectionOrientation(action, sect) == OrientSection(sect)

\* ---- tab stops
\* Cm(position_in_cm) in EMU, and the twips written as the w:pos of a tab
\* (Length.twips rounds EMU / 635)
Cm(position_in_cm) == position_in_cm * 360000
Twips(emu) == (2 * emu + 635) \div (2 * 635)

\* A paragraph with the w:pos of its tab stops, in document order
TabParagraph(tab_stops) == [kind |-> "p", tab_stops |-> tab_stops]

SetTabStopAction(position_in_cm) == [name |-> "tab", position |-> Cm(position_in_cm)]
ClearAndSetTabStopAction(position_in_cm) ==
    [name |-> "cleartab", position |-> Cm(position_in_cm)]

\* TabStops.add_tab_stop: the new tab goes before the first tab that lies
\* further right, or last
RECURSIVE InsertTabInOrder(_, _, _)
InsertTabInOrder(tabs, pos, i) ==
    IF i > Len(tabs) THEN Append(tabs, pos)
    ELSE IF pos < tabs[i]
         THEN SubSeq(tabs, 1, i - 1) \o <<pos>> \o SubSeq(tabs, i, Len(tabs))
         ELSE InsertTabInOrder(tabs, pos, i + 1)

AddTabStop(tabs, position) == InsertTabInOrder(tabs, Twips(position), 1)

\* SetTabStopAction.execute on a paragraph
SetTabStop(action, para) ==
    [para EXCEPT !.tab_stops = AddTabStop(@, action.position)]

\* A clear-and-set that does not clear.
SetTabStopOnly(action, para) ==
    [para EXCEPT !.tab_stops = AddTabStop(@, action.position)]

\* ClearAndSetTabStopAction.execute on a paragraph: clear_all, add_tab_stop
ClearAndSetTabStop(action, para) ==
    [para EXCEPT !.tab_stops = AddTabStop(<<>>, action.position)]

\* Action.execute(element) on the document d: the document afterwards and
\* whether the call raised.
\* The six edges of <w:tblBorders> and <w:tcBorders>.
Edges == {"top", "left", "bottom", "right", "insideH", "insideV"}

\* A border-definition node: absent, or present with, per edge, no child
\* ("absent") or a child whose w:val is "single" or "nil".
NoBorders == [present |-> FALSE, edges |-> [e \in Edges |-> "absent"]]

\* The node is created when missing, every edge child is created when missing
\* and its w:val set to nil.
SetBordersNil(borders) == [present |-> TRUE, edges |-> [e \in Edges |-> "nil"]]

\* A cell: whether <w:tcPr> is there, and its <w:tcBorders>.
BorderCell(tcPr, tcBorders) == [tcPr |-> tcPr, tcBorders |-> tcBorders]

\* A table: <w:tblPr> (a required child), its <w:tblBorders>, rows of cells.
BorderTable(tblBorders, rows) ==
    [kind |-> "tbl", tblPr |-> TRUE, tblBorders |-> tblBorders, rows |-> rows]

RemoveTableBordersAction == [name |-> "borders", old |-> <<>>, new |-> <<>>, arg |-> "none"]

\* RemoveTableBordersAction.execute on a table: the table's borders when it
\* has <w:tblPr>, and the borders of each cell that has <w:tcPr>.
RemoveTableBorders(tbl) ==
    [tbl EXCEPT
       !.tblBorders = IF tbl.tblPr THEN SetBordersNil(@) ELSE @,
       !.rows = [r \in DOMAIN @ |->
                   [c \in DOMAIN @[r] |->
                      IF @[r][c].tcPr
                      THEN [@[r][c] EXCEPT !.tcBorders = SetBordersNil(@)]
                      ELSE @[r][c]]]]

\* An execute that refuses every element.
ExecuteRefusing(d, action, element) == [document |-> d, raised |-> TRUE]

Execute(d, action, element) ==
    IF action.name = "tab"
    THEN IF element.kind = "p"
         THEN [document |-> [d EXCEPT !.body[element.node] = SetTabStop(action, @)],
               raised |-> FALSE]
         ELSE [document |-> d, raised |-> FALSE]
    ELSE IF action.name = "cleartab"
    THEN IF element.kind = "p"
         THEN [document |-> [d EXCEPT !.body[element.node] =
                                ClearAndSetTabStop(action, @)],
               raised |-> FALSE]
         ELSE [document |-> d, raised |-> FALSE]
    ELSE IF action.name = "borders"
    THEN IF element.kind = "tbl"
         THEN [document |-> [d EXCEPT !.body[element.node] = RemoveTableBorders(@)],
               raised |-> FALSE]
         ELSE [document |-> d, raised |-> FALSE]
    ELSE IF action.name = "tablewidth"
    THEN IF element.kind = "tbl"
         THEN [document |-> [d EXCEPT !.body[element.node] = SetTableWidth(action, @)],
               raised |-> FALSE]
         ELSE [document |-> d, raised |-> FALSE]
    ELSE IF action.name = "colwidth"
    THEN IF element.kind = "tbl"
         THEN LET r == SetColumnWidths(action, d.body[element.node])
              IN  [document |-> [d EXCEPT !.body[element.node] = r.element],
                   raised |-> r.raised]
         ELSE [document |-> d, raised |-> TRUE]
    ELSE IF action.name = "autofit"
    THEN IF element.kind = "tbl"
         THEN LET r == AutoFitTable(action, d.body[element.node])
              IN  [document |-> [d EXCEPT !.body[element.node] = r.element],
                   raised |-> r.raised]
         ELSE [document |-> d, raised |-> FALSE]
    ELSE IF action.name = "font"
    THEN IF element.kind = "p"
         THEN [document |-> [d EXCEPT !.body[element.node] =
                                ApplyToParagraph(action, @)],
               raised |-> FALSE]
         ELSE IF element.kind = "tbl"
         THEN [document |-> [d EXCEPT !.body[element.node] =
                                FontSizeInTable(action, @)],
               raised |-> FALSE]
         ELSE [document |-> d, raised |-> FALSE]
    ELSE IF action.name = "replace"
    THEN IF element.kind = "p"
         THEN [document |-> [d EXCEPT !.body[element.node] =
                                ReplaceInParagraph(@, action.old, action.new)],
               raised |-> FALSE]
         ELSE IF element.kind = "tbl"
         THEN [document |-> [d EXCEPT !.body[element.node] =
                                ReplaceInTable(@, action.old, action.new)],
               raised |-> FALSE]
         ELSE [document |-> d, raised |-> FALSE]
    ELSE IF action.name = "align"
    THEN IF element.kind = "p" /\ AlignmentOf(action.arg) # "none"
         THEN [document |-> [d EXCEPT !.body[element.node].alignment =
                                AlignmentOf(action.arg)],
               raised |-> FALSE]
         ELSE [document |-> d, raised |-> FALSE]
    ELSE IF action.name = "orient"
    THEN IF element.kind # "sect"
         THEN [document |-> d, raised |-> TRUE]
         ELSE [document |-> [d EXCEPT !.sections[element.node] =
                                SetSectionOrientation(action, @)],
               raised |-> FALSE]
    ELSE [document |-> d, raised |-> FALSE]

\* ---------------------------------------------------------------- selector
\* The record of a call: the operation, the selector it was called on, its
\* arguments, the selector (or number, or list) it returned, whether it
\* raised, and the elements action.execute was called on, in call order.
NoCondition == [type |-> "none", text |-> <<>>, n |-> 0, func |-> "none"]
NoAction == [name |-> "none", old |-> <<>>, new |-> <<>>, arg |-> "none"]
NoCall ==
    [op |-> "none", recv |-> 0, cond |-> NoCondition, index |-> 0,
     action |-> NoAction, result |-> 0, raised |-> FALSE, executed |-> <<>>]

\* self._elements of selector s
Elements(s) == lists[selectors[s].elements]

\* get_by_index without the wraparound of negative indices.
GetByIndexNoWrap(elems, index) ==
    IF 0 <= index /\ index < Len(elems) THEN <<elems[index + 1]>> ELSE <<>>

\* FluentSelector.get_by_index: the list literal of the new selector
GetByIndexElements(elems, index) ==
    LET i == IF index < 0 THEN index + Len(elems) ELSE index
    IN  IF 0 <= i /\ i < Len(elems) THEN <<elems[i + 1]>> ELSE <<>>

\* The list comprehension of FluentSelector.where
RECURSIVE Filtered(_, _, _)
Filtered(elems, cond, i) ==
    IF i > Len(elems) THEN <<>>
    ELSE (IF Check(cond, elems[i]) = "true" THEN <<elems[i]>> ELSE <<>>)
         \o Filtered(elems, cond, i + 1)

\* A comprehension that stops at the first element that fails the condition.
RECURSIVE FilteredUntilMiss(_, _, _)
FilteredUntilMiss(elems, cond, i) ==
    IF i > Len(elems) \/ Check(cond, elems[i]) # "true" THEN <<>>
    ELSE <<elems[i]>> \o FilteredUntilMiss(elems, cond, i + 1)

WhereElementsUntilMiss(elems, cond) == FilteredUntilMiss(elems, cond, 1)

WhereElements(elems, cond) == Filtered(elems, cond, 1)

\* An exception leaving condition.check leaves the comprehension and where
WhereRaises(elems, cond) == \E i \in 1..Len(elems) : Check(cond, elems[i]) = "raise"

\* A loop that returns after the first element.
ApplyLoopFirstOnly(d, elems, action, i) ==
    IF i > Len(elems)
    THEN [document |-> d, raised |-> FALSE, executed |-> elems]
    ELSE LET r == Execute(d, action, elems[i])
         IN  [document |-> r.document, raised |-> r.raised,
              executed |-> SubSeq(elems, 1, i)]

\* A loop that goes on after an execute that raised.
RECURSIVE ApplyLoopContinuing(_, _, _, _)
ApplyLoopContinuing(d, elems, action, i) ==
    IF i > Len(elems)
    THEN [document |-> d, raised |-> FALSE, executed |-> elems]
    ELSE LET r == Execute(d, action, elems[i])
             rest == ApplyLoopContinuing(r.document, elems, action, i + 1)
         IN  [rest EXCEPT !.raised = @ \/ r.raised]

\* The loop of FluentSelector.apply from element i on: it stops at the first
\* execute that raises and keeps what was done before.
RECURSIVE ApplyLoop(_, _, _, _)
ApplyLoop(d, elems, action, i) ==
    IF i > Len(elems)
    THEN [document |-> d, raised |-> FALSE, executed |-> elems]
    ELSE LET r == Execute(d, action, elems[i])
         IN  IF r.raised
             THEN [document |-> r.document, raised |-> TRUE,
                   executed |-> SubSeq(elems, 1, i)]
             ELSE ApplyLoop(r.document, elems, action, i + 1)

\* ------------------------------------------------------------------ inputs
Conditions ==
    {RegexCondition(Marker), TableColumnCondition(2), TableTextCondition(Marker),
     FunctionCondition("text_has_marker", 0),
     FunctionCondition("second_char_is_h", 0)}

Actions ==
    {ReplaceTextAction(Marker, Empty), SetSectionOrientationAction("landscape")}

\* get_by_index is called with every index from one below -n to n, for a
\* selector of n elements; the section methods with every ordinal of the
\* document and one past the last.
IndexArgs(s) == (-(Len(Elements(s)) + 1))..Len(Elements(s))
SectionArgs == 0..Len(document.sections)

\* ------------------------------------------------------------------ editor
\* DocxEditor.__init__
Construct ==
    /\ ~constructed
    /\ LET st == BuildElementSectionMap(document.body)
       IN  /\ build' = st
           /\ paragraph_section_map' = st.pmap
           /\ table_section_map' = st.tmap
    /\ constructed' = TRUE
    /\ last' = [NoCall EXCEPT !.op = "init"]
    /\ UNCHANGED <<direct, document, lists, selectors>>

\* FluentSelector.__init__(elements, editor) with a newly created list
NewSelector(op, recv, cond, index, elems) ==
    /\ Len(selectors) < MaxSelectors
    /\ lists' = Append(lists, elems)
    /\ selectors' = Append(selectors, [elements |-> Len(lists) + 1])
    /\ last' = [NoCall EXCEPT !.op = op, !.recv = recv, !.cond = cond,
                              !.index = index, !.result = Len(selectors) + 1]
    /\ UNCHANGED <<direct, document, constructed, paragraph_section_map,
                   table_section_map, build>>

\* DocxEditor.select_paragraphs / select_tables / select_sections
SelectParagraphs ==
    /\ constructed
    /\ NewSelector("select_paragraphs", 0, NoCondition, 0,
                   DocParagraphs(Len(selectors) + 1))

SelectTables ==
    /\ constructed
    /\ NewSelector("select_tables", 0, NoCondition, 0,
                   DocTables(Len(selectors) + 1))

SelectSections ==
    /\ constructed
    /\ NewSelector("select_sections", 0, NoCondition, 0,
                   DocSections(Len(selectors) + 1))

\* DocxEditor.save: writes the package; nothing of the editor changes
Save ==
    /\ constructed
    /\ last' = [NoCall EXCEPT !.op = "save"]
    /\ UNCHANGED <<direct, document, constructed, paragraph_section_map,
                   table_section_map, build, lists, selectors>>

\* FluentSelector.get_by_index
GetByIndex(s, index) ==
    NewSelector("get_by_index", s, NoCondition, index,
                GetByIndexElements(Elements(s), index))

\* A call that ends with an exception: nothing is returned or changed
Raise(op, recv, cond) ==
    /\ last' = [NoCall EXCEPT !.op = op, !.recv = recv, !.cond = cond,
                              !.raised = TRUE]
    /\ UNCHANGED <<direct, document, constructed, paragraph_section_map,
                   table_section_map, build, lists, selectors>>

\* A where that filters the selector's own list in place and returns self.
WhereInPlace(op, s, cond) ==
    /\ lists' = [lists EXCEPT ![selectors[s].elements] =
                     WhereElements(Elements(s), cond)]
    /\ last' = [NoCall EXCEPT !.op = op, !.recv = s, !.cond = cond, !.result = s]
    /\ UNCHANGED <<direct, document, constructed, paragraph_section_map,
                   table_section_map, build, selectors>>

\* The body of FluentSelector.where, called as op.  The call is made only
\* while there is room for the selector it returns.
WhereAs(op, s, cond) ==
    /\ Len(selectors) < MaxSelectors
    /\ IF WhereRaises(Elements(s), cond)
       THEN Raise(op, s, cond)
       ELSE NewSelector(op, s, cond, 0, WhereElements(Elements(s), cond))

\* FluentSelector.where
Where(s, cond) == WhereAs("where", s, cond)

\* FluentSelector.in_section / from_section
InSection(s, section_index) ==
    WhereAs("in_section", s, FunctionCondition("in_section", section_index))

FromSection(s, start_section_index) ==
    WhereAs("from_section", s, FunctionCondition("from_section", start_section_index))

\* The elements of the document of the kind selector s holds, read again.
Requeried(s) ==
    IF Elements(s) = <<>> THEN <<>>
    ELSE IF Elements(s)[1].kind = "p" THEN DocParagraphs(s)
    ELSE IF Elements(s)[1].kind = "tbl" THEN DocTables(s)
    ELSE DocSections(s)

\* An apply that reads the element list from the document again.
ApplyRequery(s, action) ==
    LET r == ApplyLoop(document, Requeried(s), action, 1)
    IN  /\ document' = r.document
        /\ last' = [NoCall EXCEPT !.op = "apply", !.recv = s, !.action = action,
                                  !.result = IF r.raised THEN 0 ELSE s,
                                  !.raised = r.raised, !.executed = r.executed]
        /\ UNCHANGED <<direct, constructed, paragraph_section_map, table_section_map,
                       build, lists, selectors>>

\* An apply that drops the section index after mutating the elements.
ApplyInvalidating(s, action) ==
    LET r == ApplyLoop(document, Elements(s), action, 1)
    IN  /\ document' = r.document
        /\ last' = [NoCall EXCEPT !.op = "apply", !.recv = s, !.action = action,
                                  !.result = IF r.raised THEN 0 ELSE s,
                                  !.raised = r.raised, !.executed = r.executed]
        /\ paragraph_section_map' = <<>>
        /\ table_section_map' = <<>>
        /\ UNCHANGED <<direct, constructed, build, lists, selectors>>

\* FluentSelector.apply
Apply(s, action) ==
    LET r == ApplyLoop(document, Elements(s), action, 1)
    IN  /\ document' = r.document
        /\ last' = [NoCall EXCEPT !.op = "apply", !.recv = s, !.action = action,
                                  !.result = IF r.raised THEN 0 ELSE s,
                                  !.raised = r.raised, !.executed = r.executed]
        /\ UNCHANGED <<direct, constructed, paragraph_section_map, table_section_map,
                       build, lists, selectors>>

\* FluentSelector.count
Count(s) ==
    /\ last' = [NoCall EXCEPT !.op = "count", !.recv = s,
                              !.result = Len(Elements(s))]
    /\ UNCHANGED <<direct, document, constructed, paragraph_section_map,
                   table_section_map, build, lists, selectors>>

\* FluentSelector.get: returns the list object itself
Get(s) ==
    /\ last' = [NoCall EXCEPT !.op = "get", !.recv = s,
                              !.result = selectors[s].elements]
    /\ UNCHANGED <<direct, document, constructed, paragraph_section_map,
                   table_section_map, build, lists, selectors>>

\* ---------------------------------------------------------- specifications
\* No action object has been made and nothing was executed directly.
NoDirect ==
    [kind |-> "none", element |-> [kind |-> "none"], history |-> <<>>,
     action |-> NoAction, made |-> "no", used |-> NoAction, calls |-> 0,
     raised |-> FALSE]

Documents(blocks, n) == {MakeDocument(b) : b \in SeqsUpTo(blocks, n)}

InitWith(docs) ==
    /\ document \in docs
    /\ constructed = FALSE
    /\ paragraph_section_map = <<>>
    /\ table_section_map = <<>>
    /\ build = BuildStart
    /\ lists = <<>>
    /\ selectors = <<>>
    /\ last = NoCall
    /\ direct = NoDirect

Init == InitWith(Documents(BlockChoices, MaxBody))

Next ==
    \/ Construct
    \/ SelectParagraphs
    \/ SelectTables
    \/ SelectSections
    \/ Save
    \/ \E s \in DOMAIN selectors : \E i \in IndexArgs(s) : GetByIndex(s, i)
    \/ \E s \in DOMAIN selectors, c \in Conditions : Where(s, c)
    \/ \E s \in DOMAIN selectors, i \in SectionArgs : InSection(s, i)
    \/ \E s \in DOMAIN selectors, i \in SectionArgs : FromSection(s, i)
    \/ \E s \in DOMAIN selectors, a \in Actions : Apply(s, a)
    \/ \E s \in DOMAIN selectors : Count(s)
    \/ \E s \in DOMAIN selectors : Get(s)

Spec == Init /\ [][Next]_vars

\* The section index builder alone, on longer bodies.
StructureChoices ==
    {Para(FALSE, <<Hello>>), Para(TRUE, <<Hello>>), Tbl(1, << <<Cell(<<Hello>>)>> >>)}

InitIndex == InitWith(Documents(StructureChoices, MaxIndexBody))

NextIndex == Construct

SpecIndex == InitIndex /\ [][NextIndex]_vars

\* ------------------------------------------------------------------ claims
\* The section-break-bearing paragraphs strictly before body position pos
BreaksBefore(b, pos) ==
    Cardinality({i \in 1..(pos - 1) : b[i].kind = "p" /\ b[i].sectPr})

\* C1: once the editor is constructed, the paragraph map is defined on exactly
\* the paragraph positions and the table map on exactly the table positions,
\* and the ordinal recorded for each equals the number of break-bearing
\* paragraphs strictly before that element in the body (so a break-bearing
\* paragraph gets the ordinal of the section it ends, a table never advances
\* the ordinal, and without breaks every ordinal is 0).
C1_OrdinalIsBreaksBefore ==
    constructed =>
        LET b == document.body
            ps == PositionsOfKind(b, "p", 1)
            ts == PositionsOfKind(b, "tbl", 1)
        IN  /\ DOMAIN paragraph_section_map = 0..(Len(ps) - 1)
            /\ DOMAIN table_section_map = 0..(Len(ts) - 1)
            /\ \A j \in 1..Len(ps) :
                   paragraph_section_map[j - 1] = BreaksBefore(b, ps[j])
            /\ \A j \in 1..Len(ts) :
                   table_section_map[j - 1] = BreaksBefore(b, ts[j])
            /\ (BreakCount(b) = 0 =>
                   /\ \A j \in DOMAIN paragraph_section_map : paragraph_section_map[j] = 0
                   /\ \A j \in DOMAIN table_section_map : table_section_map[j] = 0)

\* A constructed editor whose body has a break-bearing paragraph that follows
\* another one, and a table after a break with a table before it.
C1_Witness ==
    /\ constructed
    /\ \E j \in DOMAIN paragraph_section_map :
           /\ paragraph_section_map[j] >= 1
           /\ document.body[PositionsOfKind(document.body, "p", 1)[j + 1]].sectPr
    /\ \E j \in DOMAIN table_section_map :
           j >= 1 /\ table_section_map[j] >= 1 /\ table_section_map[j - 1] = 0

KthOf(keep, k) == CHOOSE i \in keep : Cardinality({j \in keep : j < i}) = k - 1
SubListAt(elems, keep) == [k \in 1..Cardinality(keep) |-> elems[KthOf(keep, k)]]

Prefix(p, q) == Len(p) <= Len(q) /\ p = SubSeq(q, 1, Len(p))

Narrowing == {"get_by_index", "where", "in_section", "from_section"}

\* C3: once the editor is constructed, no call (select_*, where, get_by_index,
\* in_section, from_section, apply, count, get, save) changes the paragraph map
\* or the table map: they stay the maps computed at load time.
C3_IndexBuiltOnce ==
    [][constructed =>
          /\ paragraph_section_map' = paragraph_section_map
          /\ table_section_map' = table_section_map]_vars

\* An apply has just replaced the marker of a paragraph of a document whose
\* index has a non-zero ordinal.
C3_Witness ==
    /\ constructed
    /\ last.op = "apply" /\ last.action = ReplaceTextAction(Marker, Empty)
    /\ \E k \in 1..Len(last.executed) :
           /\ last.executed[k].kind = "p"
           /\ ~Node(document, last.executed[k]).sectPr
           /\ ParagraphText(Node(document, last.executed[k])) = Hello
    /\ \E j \in DOMAIN paragraph_section_map : paragraph_section_map[j] >= 1

\* C4: get_by_index(i) on a selector of n elements never raises; for 0 <= i < n
\* the result holds exactly the element at position i, for -n <= i < 0 exactly
\* the element at position n+i, and for every other i it holds nothing.
C4_GetByIndex ==
    last.op = "get_by_index" =>
        LET elems == Elements(last.recv)
            n == Len(elems)
            i == last.index
        IN  /\ ~last.raised
            /\ last.result \in DOMAIN selectors
            /\ (0 <= i /\ i < n) => Elements(last.result) = <<elems[i + 1]>>
            /\ (-n <= i /\ i < 0) => Elements(last.result) = <<elems[n + i + 1]>>
            /\ (i >= n \/ i < -n) => Elements(last.result) = <<>>

\* get_by_index(-1) on the three sections of a document has returned the third.
C4_Witness ==
    /\ last.op = "get_by_index" /\ last.index = -1
    /\ Len(Elements(last.recv)) = 3
    /\ Elements(last.recv)[1].kind = "sect"
    /\ Elements(last.result) = <<Elements(last.recv)[3]>>

\* C5: where(condition) returns a new selector holding exactly the elements of
\* the original for which condition.check is true, in their original order,
\* none added or repeated; it holds at most as many as the original.
C5_WhereFilters ==
    (last.op = "where" /\ ~last.raised) =>
        LET elems == Elements(last.recv)
            keep == {i \in 1..Len(elems) : Check(last.cond, elems[i]) = "true"}
        IN  /\ last.result \in DOMAIN selectors
            /\ last.result # last.recv
            /\ Elements(last.result) = SubListAt(elems, keep)
            /\ Len(Elements(last.result)) <= Len(elems)

\* where has kept the second of two elements and dropped the first.
C5_Witness ==
    /\ last.op = "where" /\ ~last.raised
    /\ Len(Elements(last.recv)) = 2
    /\ Elements(last.result) = <<Elements(last.recv)[2]>>

\* C6: no call changes the elements a selector holds or their order, and each
\* narrowing call (where, get_by_index, in_section, from_section) returns a
\* selector object that is not the one it was called on and whose list object
\* is not the original's list.
C6_SnapshotsImmutable ==
    [][/\ \A s \in DOMAIN selectors :
             /\ s \in DOMAIN selectors'
             /\ selectors'[s] = selectors[s]
             /\ lists'[selectors[s].elements] = lists[selectors[s].elements]
       /\ (last'.op \in Narrowing /\ ~last'.raised /\ last' # last) =>
             /\ last'.result \notin DOMAIN selectors
             /\ last'.result \in DOMAIN selectors'
             /\ last'.result # last'.recv
             /\ selectors'[last'.result].elements \notin DOMAIN lists
             /\ selectors'[last'.result].elements # selectors'[last'.recv].elements]_vars

\* A narrowing call has returned a selector holding fewer elements than the
\* selector it was called on, which still holds them all.
C6_Witness ==
    /\ last.op \in Narrowing /\ ~last.raised
    /\ Len(Elements(last.recv)) = 2
    /\ Len(Elements(last.result)) < 2
    /\ Elements(last.recv)[1] # Elements(last.recv)[2]

\* self._elements of selector s after the step
ElementsAfter(s) == lists'[selectors'[s].elements]

\* The elements a call of apply executed its action on, given the list held:
\* all of them in order, or those up to the one on which the action raised.
ExecutedOn(call, elems) ==
    IF call.raised
    THEN Len(call.executed) >= 1 /\ Prefix(call.executed, elems)
    ELSE call.executed = elems

\* C7: in selector.where(c).apply(a1).apply(a2)..., the apply that follows the
\* where executes a1 on exactly the elements that satisfied c when where ran,
\* and an apply that follows an apply on the same selector executes on the
\* same list again: the list is neither re-filtered nor read again from the
\* document, whatever the earlier actions did to the elements.
C7_FrozenMembership ==
    [][/\ (last.op = "where" /\ ~last.raised
            /\ last'.op = "apply" /\ last'.recv = last.result) =>
             LET from == Elements(last.recv)
                 held == Elements(last.result)
             IN  /\ ElementsAfter(last.result) = held
                 /\ ExecutedOn(last', held)
                 /\ \A i \in 1..Len(from) :
                        (Check(last.cond, from[i]) = "true")
                            <=> (\E k \in 1..Len(held) : held[k] = from[i])
       /\ (last.op = "apply" /\ last'.op = "apply" /\ last'.recv = last.recv) =>
             /\ ElementsAfter(last.recv) = Elements(last.recv)
             /\ ExecutedOn(last, Elements(last.recv))
             /\ ExecutedOn(last', Elements(last.recv))]_vars

\* An apply on a selector that holds only some of the paragraphs has removed
\* the marker from the paragraphs it holds: they no longer match the marker
\* and the selector still holds them.
C7_Witness ==
    /\ last.op = "apply" /\ ~last.raised
    /\ last.action = ReplaceTextAction(Marker, Empty)
    /\ last.executed # <<>>
    /\ Elements(last.recv) = last.executed
    /\ Len(last.executed) < Len(DocParagraphs(0))
    /\ \A k \in 1..Len(last.executed) :
           /\ last.executed[k].kind = "p"
           /\ Check(RegexCondition(Marker), last.executed[k]) = "false"
           /\ ~Node(document, last.executed[k]).sectPr

\* C8: an apply whose action does not raise executes the action once on each
\* held element in list order and returns the selector it was called on, with
\* the same list; each held element is as one execute leaves it and everything
\* else is untouched; on an empty selector nothing is executed, nothing is
\* raised and the document is unchanged.
C8_ApplyOnceEach ==
    [][(last'.op = "apply" /\ ~last'.raised) =>
          LET s == last'.recv
              elems == Elements(s)
              a == last'.action
              held(kinds, node) ==
                  \E k \in 1..Len(elems) :
                      elems[k].kind \in kinds /\ elems[k].node = node
          IN  /\ last'.executed = elems
              /\ last'.result = s
              /\ selectors' = selectors
              /\ lists' = lists
              /\ Len(document'.body) = Len(document.body)
              /\ Len(document'.sections) = Len(document.sections)
              /\ \A i \in 1..Len(document.body) :
                     document'.body[i] =
                         IF held({"p", "tbl"}, i)
                         THEN Execute(document, a,
                                      Proxy(document.body[i].kind, i, 0)).document.body[i]
                         ELSE document.body[i]
              /\ \A j \in 1..Len(document.sections) :
                     document'.sections[j] =
                         IF held({"sect"}, j)
                         THEN Execute(document, a, Proxy("sect", j, 0)).document.sections[j]
                         ELSE document.sections[j]
              /\ (elems = <<>> => document' = document)]_vars

\* An apply has executed its action on both elements of a selector, in order.
C8_Witness ==
    /\ last.op = "apply" /\ ~last.raised
    /\ Len(last.executed) = 2
    /\ last.executed = Elements(last.recv)
    /\ last.result = last.recv

\* C9: where with a function condition always completes, and the selector it
\* returns holds exactly the elements on which the predicate returned true: an
\* element on which the predicate raised is left out like one on which it
\* returned false.
C9_FunctionConditionNeverAborts ==
    (last.op \in {"where", "in_section", "from_section"}
        /\ last.cond.type = "function") =>
        /\ ~last.raised
        /\ last.result \in DOMAIN selectors
        /\ LET elems == Elements(last.recv)
               keep == {i \in 1..Len(elems) :
                           CallPredicate(last.cond.func, last.cond.n, elems[i]) = "true"}
           IN  Elements(last.result) = SubListAt(elems, keep)

\* where with a predicate that raised on one held element and returned true on
\* another has returned the selector of the latter.
C9_Witness ==
    /\ last.op = "where" /\ last.cond.type = "function" /\ ~last.raised
    /\ \E i \in 1..Len(Elements(last.recv)) :
           CallPredicate(last.cond.func, last.cond.n, Elements(last.recv)[i]) = "raise"
    /\ Len(Elements(last.result)) >= 1

\* The section an element belongs to: for a paragraph or a table the number of
\* section breaks before it, for a section its position in document.sections.
SectionOrdinal(element) ==
    IF element.kind = "sect" THEN element.node - 1
    ELSE BreaksBefore(document.body, element.node)

\* C10: in_section(i) returns exactly the held elements whose section ordinal
\* is i and from_section(i) exactly those whose ordinal is at least i, in
\* order, for selectors of paragraphs, of tables and of sections (so that
\* from_section(i) on all s sections holds the sections i..s-1).
C10_SectionFilters ==
    (last.op \in {"in_section", "from_section"}) =>
        /\ ~last.raised
        /\ LET elems == Elements(last.recv)
               keep == {i \in 1..Len(elems) :
                           IF last.op = "in_section"
                           THEN SectionOrdinal(elems[i]) = last.cond.n
                           ELSE SectionOrdinal(elems[i]) >= last.cond.n}
           IN  Elements(last.result) = SubListAt(elems, keep)

\* ------------------------------------------------- actions executed directly
\* An execute whose exception is swallowed on the way out.
ExecuteOnSilent(action, kind, node) ==
    LET d == IF kind = "sect" THEN [body |-> <<>>, sections |-> <<node>>]
             ELSE [body |-> <<node>>, sections |-> <<>>]
        r == Execute(d, action, Proxy(kind, 1, 0))
    IN  [element |-> Node(r.document, Proxy(kind, 1, 0)), raised |-> FALSE]

\* action.execute(element) on one element, outside a selector: the element
\* alone is the document the action sees.
ExecuteOn(action, kind, node) ==
    LET d == IF kind = "sect" THEN [body |-> <<>>, sections |-> <<node>>]
             ELSE [body |-> <<node>>, sections |-> <<>>]
        r == Execute(d, action, Proxy(kind, 1, 0))
    IN  [element |-> Node(r.document, Proxy(kind, 1, 0)), raised |-> r.raised]

\* The editor is not involved.
EditorUnchanged ==
    UNCHANGED <<document, constructed, paragraph_section_map, table_section_map,
                build, lists, selectors, last>>

\* An element of each of the given kinds, and no action object yet.
DirectInit(elements, noaction) ==
    /\ document = MakeDocument(<<>>)
    /\ constructed = FALSE
    /\ paragraph_section_map = <<>>
    /\ table_section_map = <<>>
    /\ build = BuildStart
    /\ lists = <<>>
    /\ selectors = <<>>
    /\ last = NoCall
    /\ \E e \in elements :
         direct = [kind |-> e.kind, element |-> e.node, history |-> <<>>,
                   action |-> noaction, made |-> "no", used |-> noaction,
                   calls |-> 0, raised |-> FALSE]

\* Action.__init__ returns the action object a
NewAction(a) ==
    /\ direct' = [direct EXCEPT !.action = a, !.made = "yes", !.raised = FALSE]
    /\ EditorUnchanged

\* Action.__init__ raises: there is no action object
RefuseAction(a) ==
    /\ direct' = [direct EXCEPT !.action = a, !.made = "raised", !.raised = TRUE]
    /\ EditorUnchanged

\* action.execute(element) with the action object made last; history keeps
\* the element as it was before each call, used the action object of the call.
ExecuteDirect ==
    /\ direct.made = "yes"
    /\ direct.calls < MaxCalls
    /\ LET r == ExecuteOn(direct.action, direct.kind, direct.element)
       IN  direct' = [direct EXCEPT !.element = r.element,
                                    !.history = Append(@, direct.element),
                                    !.used = direct.action,
                                    !.raised = r.raised,
                                    !.calls = @ + 1]
    /\ EditorUnchanged

\* The element before the last execute call
Before == direct.history[Len(direct.history)]

\* ------------------------------------------------------------ replace text
Texts(n) == SeqsUpTo({"a", "b"}, n)

\* A paragraph of two runs, a one-row table of two cells, and a section.
ReplaceElements ==
    {[kind |-> "p", node |-> Para(FALSE, <<t, u>>)] : t \in Texts(MaxText), u \in Texts(1)}
    \cup {[kind |-> "tbl", node |-> Tbl(2, << <<Cell(<<t>>), Cell(<<u>>)>> >>)] :
             t \in Texts(MaxText), u \in Texts(1)}
    \cup {[kind |-> "sect", node |-> Sect]}

ReplaceActions ==
    {ReplaceTextAction(old, new) : old \in Texts(MaxPattern), new \in Texts(MaxPattern)}

InitReplace == DirectInit(ReplaceElements, NoAction)

\* One ReplaceTextAction object, executed repeatedly on the element.
NextReplace ==
    \/ direct.made = "no" /\ \E a \in ReplaceActions : NewAction(a)
    \/ ExecuteDirect

SpecReplace == InitReplace /\ [][NextReplace]_vars

\* The run texts of an element, in document order
RunTexts(kind, node) ==
    IF kind = "p" THEN node.runs
    ELSE IF kind = "tbl"
    THEN Concat([r \in 1..Len(node.rows) |->
            Concat([c \in 1..Len(node.rows[r]) |->
               Concat([q \in 1..Len(node.rows[r][c].paragraphs) |->
                  node.rows[r][c].paragraphs[q].runs])])])
    ELSE <<>>

Chars(s) == {s[i] : i \in 1..Len(s)}

\* C11 as claimed: whenever old is not a substring of new, a second execution
\* of the same replace action leaves every run text as the first left it.
C11_IdempotentUnlessNewHoldsOld ==
    (direct.calls >= 2 /\ ~Contains(direct.action.new, direct.action.old)) =>
        direct.element = Before

\* C11, amended: executing the action again leaves a run text as it is exactly
\* when that text does not contain old, or old = new; this is the case for
\* every run after a first execution when old and new are non-empty and have
\* no character in common.
C11_IdempotentWhenOldIsGone ==
    direct.calls >= 2 =>
        LET old == direct.action.old
            new == direct.action.new
            was == RunTexts(direct.kind, Before)
            now == RunTexts(direct.kind, direct.element)
        IN  /\ Len(now) = Len(was)
            /\ \A j \in 1..Len(was) :
                 (now[j] = was[j]) <=> (old = new \/ ~Contains(was[j], old))
            /\ (old # <<>> /\ new # <<>> /\ Chars(old) \cap Chars(new) = {})
                 => direct.element = Before

\* A first execution replaced something, old and new share no character, and
\* the second execution changed nothing.
C11_Witness ==
    /\ direct.calls = 2
    /\ direct.action.old # <<>> /\ direct.action.new # <<>>
    /\ Chars(direct.action.old) \cap Chars(direct.action.new) = {}
    /\ direct.history[1] # direct.history[2]
    /\ direct.element = direct.history[2]

\* The occurrences of old that s.replace replaces: scanning from the left, an
\* occurrence counts unless it overlaps an earlier one that counts.
Occurrences(s, old) ==
    {i \in 1..(Len(s) - Len(old) + 1) : SubSeq(s, i, i + Len(old) - 1) = old}

RECURSIVE ReplacedFrom(_, _, _)
ReplacedFrom(s, old, i) ==
    IF i > Len(s) - Len(old) + 1 THEN {}
    ELSE IF i \in Occurrences(s, old)
         THEN {i} \cup ReplacedFrom(s, old, i + Len(old))
         ELSE ReplacedFrom(s, old, i + 1)

Replaced(s, old) == ReplacedFrom(s, old, 1)

\* s with every counted occurrence of old put as new, position by position
AllReplaced(s, old, new) ==
    IF old = <<>>
    THEN Concat([k \in 1..(2 * Len(s) + 1) |->
                    IF k % 2 = 1 THEN new ELSE <<s[k \div 2]>>])
    ELSE LET G == Replaced(s, old)
         IN  Concat([k \in 1..Len(s) |->
                 IF k \in G THEN new
                 ELSE IF \E j \in G : j < k /\ k < j + Len(old) THEN <<>>
                 ELSE <<s[k]>>])

\* C12: an execution of replace-text keeps the number and order of the runs
\* of every paragraph (of a paragraph element and of every cell of a table
\* element); a run whose text does not contain old keeps its text, a run
\* that contains old has all non-overlapping occurrences replaced by new, and
\* with old = new every run text is unchanged.
C12_ReplaceTouchesOnlyMatchingRuns ==
    direct.calls >= 1 =>
        LET old == direct.action.old
            new == direct.action.new
            was == RunTexts(direct.kind, Before)
            now == RunTexts(direct.kind, direct.element)
        IN  /\ ~direct.raised
            /\ Len(now) = Len(was)
            /\ direct.kind = "p" => Len(direct.element.runs) = Len(Before.runs)
            /\ direct.kind = "tbl" =>
                 \A r \in 1..Len(Before.rows) : \A c \in 1..Len(Before.rows[r]) :
                    /\ Len(direct.element.rows) = Len(Before.rows)
                    /\ Len(direct.element.rows[r]) = Len(Before.rows[r])
                    /\ Len(direct.element.rows[r][c].paragraphs)
                         = Len(Before.rows[r][c].paragraphs)
                    /\ \A q \in 1..Len(Before.rows[r][c].paragraphs) :
                         Len(direct.element.rows[r][c].paragraphs[q].runs)
                           = Len(Before.rows[r][c].paragraphs[q].runs)
            /\ \A j \in 1..Len(was) :
                 /\ ~Contains(was[j], old) => now[j] = was[j]
                 /\ Contains(was[j], old) => now[j] = AllReplaced(was[j], old, new)
                 /\ old = new => now[j] = was[j]
            /\ direct.kind = "p" =>
                 [direct.element EXCEPT !.runs = <<>>] = [Before EXCEPT !.runs = <<>>]
            /\ direct.kind = "tbl" =>
                 [direct.element EXCEPT !.rows = <<>>] = [Before EXCEPT !.rows = <<>>]
            /\ direct.kind = "sect" => direct.element = Before

\* A paragraph with one run holding old twice and one run without it: the
\* first run has both occurrences replaced, the second is as before.
C12_Witness ==
    /\ direct.calls = 1
    /\ direct.kind = "p"
    /\ direct.action.old # direct.action.new
    /\ Cardinality(Occurrences(Before.runs[1], direct.action.old)) >= 2
    /\ direct.action.old # <<>>
    /\ Before.runs[2] # <<>>
    /\ ~Contains(Before.runs[2], direct.action.old)
    /\ direct.element.runs[1] # Before.runs[1]
    /\ direct.element.runs[2] = Before.runs[2]

\* ------------------------------------------- select, where, apply as a chain
\* Paragraphs "mh" in one run, "h", and "h" + "m" in two runs ending a section,
\* and a table with the marker in a cell.
ChainChoices ==
    {Para(FALSE, <<MarkerHello>>), Para(FALSE, <<Hello>>),
     Para(TRUE, <<Hello, Marker>>)} \cup TableChoices

InitChain == InitWith(Documents(ChainChoices, MaxChainBody))

NextChain ==
    \/ Construct
    \/ SelectParagraphs
    \/ \E s \in DOMAIN selectors : Where(s, RegexCondition(Marker))
    \/ \E s \in DOMAIN selectors : Apply(s, ReplaceTextAction(Marker, Empty))

SpecChain == InitChain /\ [][NextChain]_vars

\* The selector holds every paragraph of the document, in order.
HoldsAllParagraphs(s) ==
    [j \in 1..Len(Elements(s)) |-> Elements(s)[j].node]
        = PositionsOfKind(document.body, "p", 1)

\* where(RegexCondition(m)) was called on all paragraphs and the next call is
\* apply(ReplaceTextAction(m, "")) on the selector it returned.
ChainStep ==
    /\ last.op = "where" /\ ~last.raised
    /\ last.cond = RegexCondition(Marker)
    /\ HoldsAllParagraphs(last.recv)
    /\ last'.op = "apply"
    /\ last'.recv = last.result
    /\ last'.action = ReplaceTextAction(Marker, Empty)

\* C13: select_paragraphs().where(RegexCondition(m)).apply(ReplaceTextAction(m,
\* "")) does not raise; every paragraph whose text does not contain m, every
\* table and every section is unchanged; every paragraph whose text contains m
\* has m removed from its runs, and the single-run paragraph "mh" ends as the
\* single run "h".
C13_SelectiveReplacement ==
    [][ChainStep =>
          /\ ~last'.raised
          /\ Len(document'.body) = Len(document.body)
          /\ document'.sections = document.sections
          /\ \A i \in 1..Len(document.body) :
               LET was == document.body[i]
                   now == document'.body[i]
               IN  IF was.kind = "p" /\ Contains(ParagraphText(was), Marker)
                   THEN /\ ~Contains(ParagraphText(now), Marker)
                        /\ Len(now.runs) = Len(was.runs)
                        /\ [now EXCEPT !.runs = <<>>] = [was EXCEPT !.runs = <<>>]
                        /\ \A j \in 1..Len(was.runs) :
                             now.runs[j] = SelectSeq(was.runs[j], LAMBDA c : c # "m")
                        /\ was.runs = <<MarkerHello>> => ParagraphText(now) = Hello
                   ELSE now = was]_vars

\* The chain has run on a document of three paragraphs with the marker in the
\* second: one element was acted on, the paragraphs read "h", "h", "h".
C13_Witness ==
    /\ last.op = "apply" /\ ~last.raised
    /\ last.action = ReplaceTextAction(Marker, Empty)
    /\ Len(document.body) = 4
    /\ \A i \in 1..3 : document.body[i].kind = "p"
    /\ document.body[3].runs = <<Hello>>
    /\ document.body[1].runs = <<Hello>>
    /\ document.body[2].runs = <<Hello>>
    /\ [j \in 1..Len(last.executed) |-> last.executed[j].node] = <<2>>
    /\ HoldsAllParagraphs(1)
    /\ selectors[last.recv].elements = 2

\* --------------------------------------------------------------- font size
\* Runs start with no explicit size or with an explicit positive size.
Sizes == {None} \cup {Some(hp) : hp \in 1..MaxHalfPoints}

\* A paragraph of two runs, a table of one cell with a one-run paragraph, and
\* a section.
FontElements ==
    {[kind |-> "p", node |-> [kind |-> "p", runs |-> <<Hello, Hello>>, sizes |-> <<x, y>>]] :
        x \in Sizes, y \in Sizes}
    \cup {[kind |-> "tbl",
           node |-> [kind |-> "tbl", cols |-> 1,
                     rows |-> << << [paragraphs |-> << [runs |-> <<Hello>>, sizes |-> <<x>>] >>] >> >>]] :
             x \in Sizes}
    \cup {[kind |-> "sect", node |-> Sect]}

\* SetFontSizeAction("+n") and SetFontSizeAction("-n")
RelativeFontActions ==
    {SetFontSizeAction(form, n) : form \in {"+", "-"}, n \in 0..MaxDelta}

NoFontAction == [name |-> "none", absolute_size |-> None, relative_change |-> None]

InitFont == DirectInit(FontElements, NoFontAction)

\* Relative adjustments, each with an action object of its own or with the
\* one made before.
NextFont ==
    \/ \E a \in RelativeFontActions : NewAction(a)
    \/ ExecuteDirect

SpecFont == InitFont /\ [][NextFont]_vars

\* The font sizes of the runs of an element, in document order
RunSizes(kind, node) ==
    IF kind = "p" THEN node.sizes
    ELSE IF kind = "tbl"
    THEN Concat([r \in 1..Len(node.rows) |->
            Concat([c \in 1..Len(node.rows[r]) |->
               Concat([q \in 1..Len(node.rows[r][c].paragraphs) |->
                  node.rows[r][c].paragraphs[q].sizes])])])
    ELSE <<>>

\* C14: a relative font-size adjustment by delta points leaves a run without
\* an explicit size without one; a run of explicit size S gets S + delta when
\* that is positive and keeps S otherwise; so after any sequence of relative
\* adjustments every explicit size is positive and no run that started
\* without an explicit size has one.
C14_RelativeFontSize ==
    /\ \A j \in 1..Len(RunSizes(direct.kind, direct.element)) :
         LET now == RunSizes(direct.kind, direct.element)[j]
         IN  /\ now.some => now.v > 0
             /\ direct.calls >= 1 =>
                  (now.some <=> RunSizes(direct.kind, direct.history[1])[j].some)
    /\ direct.calls >= 1 =>
         LET delta == direct.used.relative_change.v
             was == RunSizes(direct.kind, Before)
             now == RunSizes(direct.kind, direct.element)
         IN  /\ ~direct.raised
             /\ Len(now) = Len(was)
             /\ \A j \in 1..Len(was) :
                  IF ~was[j].some THEN now[j] = None
                  ELSE IF was[j].v + 2 * delta > 0
                  THEN now[j] = Some(was[j].v + 2 * delta)
                  ELSE now[j] = was[j]

\* C27: when a relative font-size delta would make the size of a run
\* non-positive (explicit size S with S + delta <= 0), the run keeps S: the
\* adjustment is skipped for that run, the size is not set to a least
\* positive value, and the other runs of the paragraph are adjusted each on
\* its own.
C27_NonPositiveSizeSkipsRun ==
    (direct.calls >= 1 /\ direct.kind = "p") =>
        LET delta == 2 * direct.used.relative_change.v
            was == Before.sizes
            now == direct.element.sizes
            skipped == {j \in 1..Len(was) : was[j].some /\ was[j].v + delta <= 0}
        IN  /\ \A j \in skipped : now[j] = was[j]
            /\ \A k \in (1..Len(was)) \ skipped :
                  was[k].some => now[k] = Some(was[k].v + delta)

\* Runs of 1 and 2 points under "-1": the first keeps its 1 point, the
\* second has 1 point.
C27_Witness ==
    /\ direct.calls = 1 /\ direct.kind = "p"
    /\ direct.used.relative_change = Some(-1)
    /\ Before.sizes = <<Some(2), Some(4)>>
    /\ direct.element.sizes = <<Some(2), Some(2)>>

\* A paragraph with a run without a size and a run with one: after "+n" the
\* second run grew, after "-n" with n at least its size it stayed as it was.
C14_Witness ==
    /\ direct.calls = 2
    /\ direct.kind = "p"
    /\ ~direct.history[1].sizes[1].some /\ ~direct.element.sizes[1].some
    /\ direct.history[1].sizes[2].some
    /\ direct.history[2].sizes[2].v > direct.history[1].sizes[2].v
    /\ direct.used.relative_change.v < 0
    /\ direct.history[2].sizes[2].v + 2 * direct.used.relative_change.v <= 0
    /\ direct.element.sizes[2] = direct.history[2].sizes[2]

\* ------------------------------------------------------------ table autofit
\* Tables of 0..MaxCols columns and 0..MaxRows rows, with or without layout,
\* table width and cell widths set before; a paragraph and a section.
LayoutTables ==
    {LayoutTable(n, nrows, layout, tblW, tcW, TRUE) :
        n \in 0..MaxCols, nrows \in 0..MaxRows, layout \in {<<>>, <<"autofit">>},
        tblW \in {<<>>, <<Width(FixedTotalTwips, "dxa")>>},
        tcW \in {NoWidth, Width(1000, "dxa")}}

AutoFitElements ==
    {[kind |-> "tbl", node |-> t] : t \in LayoutTables}
    \cup {[kind |-> "p", node |-> Para(FALSE, <<Hello>>)],
          [kind |-> "sect", node |-> Sect]}

\* The ratios -1/32, 0, 1/32, ..., 1, 33/32, and no ratio
Ratios == {None} \cup {Some(num) : num \in (-1)..(RatioDen + 1)}

NoAutoFitAction == AutoFitTableAction("none", None)

InitAutoFit == DirectInit(AutoFitElements, NoAutoFitAction)

\* AutoFitTableAction(autofit_type, first_col_ratio): the object, or ValueError
MakeAutoFitTableAction(autofit_type, first_col_ratio) ==
    IF RatioAccepted(first_col_ratio)
    THEN NewAction(AutoFitTableAction(autofit_type, first_col_ratio))
    ELSE RefuseAction(AutoFitTableAction(autofit_type, first_col_ratio))

NextAutoFit ==
    \/ /\ direct.made = "no"
       /\ \E r \in Ratios : MakeAutoFitTableAction("contents", r)
    \/ /\ direct.made = "no"
       /\ \E t \in {"window", "fixed", "other"} : MakeAutoFitTableAction(t, None)
    \/ ExecuteDirect

SpecAutoFit == InitAutoFit /\ [][NextAutoFit]_vars

\* A ratio-autofit call has just ended normally on a table of two or more
\* columns that has a row.
RatioAutoFitDone ==
    /\ direct.calls >= 1 /\ ~direct.raised
    /\ direct.kind = "tbl"
    /\ direct.used.first_col_ratio.some
    /\ direct.element.cols > 1
    /\ Len(direct.element.rows) >= 1

\* x is a/b rounded to a nearest integer (either one at a tie)
IsRounded(x, a, b) == 2 * (IF a >= x * b THEN a - x * b ELSE x * b - a) <= b

\* x is the integer part of a/b, for a >= 0 and b > 0
IsTruncated(x, a, b) == x * b <= a /\ a < (x + 1) * b

\* C15 as claimed: the first cell of the first row gets round(r x 5000) and
\* every other cell of the first row round((5000 - first)/(n - 1)), as
\* percentage-typed widths.
C15_RatioWidthsRounded ==
    RatioAutoFitDone =>
        LET n == direct.element.cols
            row == direct.element.rows[1]
        IN  /\ \A i \in 1..n : row[i].tcW.type = "pct"
            /\ IsRounded(row[1].tcW.w, direct.used.first_col_ratio.v * 5000, RatioDen)
            /\ \A i \in 2..n : IsRounded(row[i].tcW.w, 5000 - row[1].tcW.w, n - 1)

\* C15, amended: the first cell of the first row gets the integer part of
\* r x 5000 and every other cell of the first row the integer part of
\* (5000 - first)/(n - 1), as percentage-typed widths; the cells of the other
\* rows keep their widths; with r = 1/2 and four columns the widths are 2500,
\* 833, 833, 833.
C15_RatioWidthsTruncated ==
    RatioAutoFitDone =>
        LET n == direct.element.cols
            row == direct.element.rows[1]
        IN  /\ \A i \in 1..n : row[i].tcW.type = "pct"
            /\ IsTruncated(row[1].tcW.w, direct.used.first_col_ratio.v * 5000, RatioDen)
            /\ \A i \in 2..n : IsTruncated(row[i].tcW.w, 5000 - row[1].tcW.w, n - 1)
            /\ \A r \in 2..Len(direct.element.rows) :
                 direct.element.rows[r] = Before.rows[r]
            /\ (2 * direct.used.first_col_ratio.v = RatioDen /\ n = 4) =>
                 [i \in 1..4 |-> row[i].tcW.w] = <<2500, 833, 833, 833>>

\* Ratio 3/32 on a table of four columns: 468.75 gives 468, 4532/3 gives 1510.
C15_Witness ==
    /\ RatioAutoFitDone
    /\ direct.used.first_col_ratio.v = 3
    /\ direct.element.cols = 4
    /\ [i \in 1..4 |-> direct.element.rows[1][i].tcW] =
         <<Width(468, "pct"), Width(1510, "pct"), Width(1510, "pct"), Width(1510, "pct")>>

\* C16: constructing the ratio-autofit action raises exactly when a ratio is
\* given that is not strictly between 0 and 1; it then yields no action
\* object, so that the element is as it was and no execute call follows;
\* with a ratio strictly between 0 and 1, or without one, the object is made.
C16_RatioValidatedAtConstruction ==
    direct.made # "no" =>
        LET ratio == direct.action.first_col_ratio
            outside == ratio.some /\ (ratio.v <= 0 \/ ratio.v >= RatioDen)
        IN  /\ direct.made = "raised" <=> outside
            /\ direct.made = "yes" <=> ~outside
            /\ direct.made = "raised" =>
                 direct.raised /\ direct.calls = 0 /\ direct.history = <<>>

\* The ratio 1 was refused.
C16_Witness ==
    /\ direct.made = "raised"
    /\ direct.action.first_col_ratio = Some(RatioDen)
    /\ direct.kind = "tbl"
    /\ direct.calls = 0

\* ------------------------------------------------------------ column widths
\* The tables above, under a library with and without Table.autofit.
ColumnWidthElements ==
    {[kind |-> "tbl", node |-> [t EXCEPT !.has_autofit = has]] :
        t \in LayoutTables, has \in BOOLEAN}
    \cup {[kind |-> "p", node |-> Para(FALSE, <<Hello>>)],
          [kind |-> "sect", node |-> Sect]}

\* Width lists of 0 to MaxCols + 1 entries, all different, rising and falling
WidthLists ==
    {[j \in 1..m |-> 100 * j] : m \in 0..(MaxCols + 1)}
    \cup {[j \in 1..m |-> 100 * (m - j + 1)] : m \in 0..(MaxCols + 1)}

NoColumnWidthAction == [name |-> "none", widths |-> <<>>]

InitColumnWidth == DirectInit(ColumnWidthElements, NoColumnWidthAction)

NextColumnWidth ==
    \/ /\ direct.made = "no"
       /\ \E w \in WidthLists : NewAction(SetTableColumnWidthAction(w))
    \/ ExecuteDirect

SpecColumnWidth == InitColumnWidth /\ [][NextColumnWidth]_vars

\* C17: per-column width assignment on a table of m columns with a width list
\* of another length raises and leaves the table exactly as it was (autofit
\* flag, layout, table width, every cell width); with a list of length m it
\* does not raise, writes widths[j] onto the cell of column j of every row,
\* switches autofit off and changes nothing else.
C17_ColumnWidthCardinality ==
    (direct.calls >= 1 /\ direct.kind = "tbl") =>
        LET widths == direct.used.widths
            was == Before
            now == direct.element
        IN  IF Len(widths) # was.cols
            THEN direct.raised /\ now = was
            ELSE /\ ~direct.raised
                 /\ Len(now.rows) = Len(was.rows)
                 /\ \A r \in 1..Len(now.rows) :
                      /\ Len(now.rows[r]) = was.cols
                      /\ \A j \in 1..was.cols :
                           now.rows[r][j] =
                             [was.rows[r][j] EXCEPT !.tcW = Width(widths[j], "dxa")]
                 /\ IF was.has_autofit THEN now.tblLayout = <<"fixed">>
                    ELSE now.allow_autofit = "false"
                 /\ [now EXCEPT !.rows = <<>>, !.tblLayout = <<>>, !.allow_autofit = ""]
                      = [was EXCEPT !.rows = <<>>, !.tblLayout = <<>>, !.allow_autofit = ""]

\* A table of three columns and two rows refused a list of four widths.
C17_Witness ==
    /\ direct.calls = 1 /\ direct.kind = "tbl"
    /\ direct.raised
    /\ Before.cols = 3 /\ Len(Before.rows) = 2
    /\ Before.tblLayout = <<"autofit">>
    /\ Len(direct.used.widths) = 4
    /\ direct.element = Before

\* ------------------------------------------------------ section orientation
\* Sections with width and height unset (0), small, or the A4 measures, in
\* either orientation; a paragraph and a table.
PageMeasures == 0..MaxPage \cup {A4Width, A4Height}

OrientElements ==
    {[kind |-> "sect",
      node |-> [orientation |-> o, page_width |-> w, page_height |-> h]] :
        o \in {"portrait", "landscape"}, w \in PageMeasures, h \in PageMeasures}
    \cup {[kind |-> "p", node |-> p] : p \in ParagraphChoices}
    \cup {[kind |-> "tbl", node |-> t] : t \in TableChoices}

InitOrient == DirectInit(OrientElements, NoAction)

NextOrient ==
    \/ /\ direct.made = "no"
       /\ \E o \in {"landscape", "portrait", "sideways"} :
             NewAction(SetSectionOrientationAction(o))
    \/ ExecuteDirect

SpecOrient == InitOrient /\ [][NextOrient]_vars

\* C18: after the section-orientation action the section's width is at least
\* its height: the two are the larger and the smaller of the original width
\* and height, or of the A4 measures (8.27in, 11.69in) when either original
\* value was unset; a second application changes nothing.
C18_LandscapeWidthAtLeastHeight ==
    (direct.calls >= 1 /\ direct.kind = "sect") =>
        LET was == Before
            now == direct.element
            unset == was.page_width = 0 \/ was.page_height = 0
            w == IF unset THEN A4Width ELSE was.page_width
            h == IF unset THEN A4Height ELSE was.page_height
        IN  /\ ~direct.raised
            /\ now.page_width >= now.page_height
            /\ now.page_width \in {w, h} /\ now.page_height \in {w, h}
            /\ {now.page_width, now.page_height} = {w, h}
            /\ direct.calls >= 2 => now = was

\* A section wider than high and one with only the height set: the first is
\* kept, the second gets the A4 measures, the longer as its width.
C18_Witness ==
    /\ direct.calls = 2 /\ direct.kind = "sect"
    /\ direct.history[1].page_width = 0
    /\ direct.history[1].page_height = 2
    /\ direct.history[2].page_width = A4Height
    /\ direct.history[2].page_height = A4Width
    /\ direct.element = direct.history[2]

\* C29: the result of the section-orientation action does not depend on its
\* orientation argument: made with "portrait", or any other text, and
\* executed on a section it gives what it gives when made with "landscape":
\* orientation landscape, the larger measure as width, the smaller as height.
C29_OrientationArgumentIgnored ==
    (direct.calls >= 1 /\ direct.kind = "sect") =>
        LET asked == ExecuteOn(SetSectionOrientationAction("landscape"), "sect", Before)
        IN  /\ direct.raised = asked.raised
            /\ direct.element = asked.element
            /\ direct.element.orientation = "landscape"
            /\ direct.element.page_width >= direct.element.page_height

\* Made with "portrait" and executed on a portrait section 2 wide and 3 high.
C29_Witness ==
    /\ direct.calls = 1 /\ direct.kind = "sect"
    /\ direct.used.arg = "portrait"
    /\ Before = [orientation |-> "portrait", page_width |-> 2, page_height |-> 3]
    /\ direct.element = [orientation |-> "landscape", page_width |-> 3, page_height |-> 2]

\* C19: the section-orientation action executed on a paragraph or a table
\* raises and leaves the element as it was.
C19_OrientationNeedsSection ==
    (direct.calls >= 1 /\ direct.kind \in {"p", "tbl"}) =>
        direct.raised /\ direct.element = Before

\* The action was executed on a table.
C19_Witness ==
    /\ direct.calls = 1
    /\ direct.kind = "tbl"
    /\ direct.used.name = "orient"
    /\ direct.raised
    /\ direct.element \in TableChoices

\* ------------------------------------------------------------ table borders
\* Border definitions before the call: none, a partial one, a full one.
BorderChoices ==
    {NoBorders,
     [present |-> TRUE,
      edges |-> [e \in Edges |-> IF e = "top" THEN "single"
                                 ELSE IF e = "left" THEN "nil" ELSE "absent"]],
     [present |-> TRUE, edges |-> [e \in Edges |-> "single"]]}

\* A cell without <w:tcPr> has no <w:tcBorders> either.
BorderCells ==
    {BorderCell(FALSE, NoBorders)} \cup {BorderCell(TRUE, b) : b \in BorderChoices}

BorderTables ==
    {BorderTable(b, rows) :
        b \in BorderChoices,
        rows \in UNION {[1..r -> [1..c -> BorderCells]] :
                            r \in 1..MaxBorderRows, c \in 1..MaxBorderCols}}

BorderElements ==
    {[kind |-> "tbl", node |-> t] : t \in BorderTables}
    \cup {[kind |-> "p", node |-> p] : p \in ParagraphChoices}

InitBorders == DirectInit(BorderElements, NoAction)

NextBorders ==
    \/ direct.made = "no" /\ NewAction(RemoveTableBordersAction)
    \/ ExecuteDirect

SpecBorders == InitBorders /\ [][NextBorders]_vars

AllNil(borders) == borders.present /\ \A e \in Edges : borders.edges[e] = "nil"

\* C20: after remove-table-borders executes on a table, the table as a whole
\* and every cell of it carry a border definition whose six edges all have
\* the explicit no-border value, whatever property nodes they had before.
C20_AllBordersNil ==
    (direct.calls >= 1 /\ direct.kind = "tbl") =>
        /\ AllNil(direct.element.tblBorders)
        /\ \A r \in DOMAIN direct.element.rows :
             \A c \in DOMAIN direct.element.rows[r] :
                AllNil(direct.element.rows[r][c].tcBorders)

\* What does hold: the table, and each cell that had <w:tcPr>.
C20_BordersNilWhereProperties ==
    (direct.calls >= 1 /\ direct.kind = "tbl") =>
        /\ AllNil(direct.element.tblBorders)
        /\ \A r \in DOMAIN direct.element.rows :
             \A c \in DOMAIN direct.element.rows[r] :
                LET cell == direct.element.rows[r][c]
                IN  IF cell.tcPr THEN AllNil(cell.tcBorders)
                    ELSE cell = Before.rows[r][c]

\* ------------------------------------------------------------- table layout
\* Tables of 0..MaxLayoutCols columns and of 7 (the fewest that do not divide
\* 6.5in in EMU), with a row or without, whose <w:tblPr> has at most one
\* layout node and at most one width node.
LayoutCols == 0..MaxLayoutCols \cup {7}

SetWidthTables ==
    {LayoutTable(n, nrows, layout, tblW, NoWidth, TRUE) :
        n \in LayoutCols, nrows \in 0..1,
        layout \in {<<>>, <<"autofit">>, <<"fixed">>},
        tblW \in {<<>>, <<Width(5000, "pct")>>}}

LayoutElements ==
    {[kind |-> "tbl", node |-> t] : t \in SetWidthTables}
    \cup {[kind |-> "p", node |-> Para(FALSE, <<Hello>>)]}

\* Autofit in each mode, in an unknown mode and with the ratio 1/2
AutoFitActions ==
    {AutoFitTableAction(t, None) :
        t \in {"contents", "window", "fixed", "other", "Fixed", "WINDOW", "Other"}}
    \cup {AutoFitTableAction("contents", Some(RatioDen \div 2))}

\* The widths 1 and 2 inches, in twips
TableWidthActions == {SetTableWidthAction(w) : w \in {1440, 2880}}

InitLayout == DirectInit(LayoutElements, NoAction)

\* action.execute(element) with an action object made for the call
ExecuteNew(a, max_calls) ==
    /\ direct.calls < max_calls
    /\ LET r == ExecuteOn(a, direct.kind, direct.element)
       IN  direct' = [direct EXCEPT !.element = r.element,
                                    !.history = Append(@, direct.element),
                                    !.action = a, !.made = "yes", !.used = a,
                                    !.calls = @ + 1, !.raised = r.raised]
    /\ EditorUnchanged

NextLayout ==
    \/ \E a \in AutoFitActions : ExecuteNew(a, MaxLayoutCalls)
    \/ \E a \in TableWidthActions : ExecuteNew(a, MaxLayoutCalls)

SpecLayout == InitLayout /\ [][NextLayout]_vars

\* C21: after set-table-width executes on a table, the table's layout type
\* is fixed and its total width is the given width in twips with the type
\* dxa, for every prior state of the table, also one whose layout type was
\* set to autofit by an autofit-table action.
C21_WidthForcesFixedLayout ==
    (direct.calls >= 1 /\ direct.kind = "tbl" /\ direct.used.name = "tablewidth") =>
        /\ direct.element.tblLayout = <<"fixed">>
        /\ direct.element.tblW = <<Width(direct.used.width, "dxa")>>

\* What does hold: the width always, the fixed layout when the table had no
\* layout node; a layout node that was there keeps its type.
C21_WidthKeepsExistingLayout ==
    (direct.calls >= 1 /\ direct.kind = "tbl" /\ direct.used.name = "tablewidth") =>
        /\ direct.element.tblW = <<Width(direct.used.width, "dxa")>>
        /\ direct.element.tblLayout =
             (IF Before.tblLayout = <<>> THEN <<"fixed">> ELSE Before.tblLayout)

\* The layout nodes and the width nodes autofit-table writes, by mode, for a
\* table of n columns.
ModeLayout(action, n) ==
    IF action.first_col_ratio.some
    THEN (IF n = 0 THEN <<>> ELSE <<"fixed">>)
    ELSE IF action.autofit_type \in {"contents", "window"} THEN <<"autofit">>
    ELSE IF action.autofit_type = "fixed" THEN <<"fixed">>
    ELSE <<>>

ModeWidth(action, n) ==
    IF action.first_col_ratio.some
    THEN (IF n = 0 THEN <<>> ELSE <<Width(5000, "pct")>>)
    ELSE IF action.autofit_type = "contents" THEN <<Width(0, "auto")>>
    ELSE IF action.autofit_type = "window" THEN <<Width(5000, "pct")>>
    ELSE IF action.autofit_type = "fixed" /\ n > 0
    THEN <<Width(FixedTotalTwips, "dxa")>>
    ELSE <<>>

\* C22: starting from a table with at most one layout node and at most one
\* width node, after any sequence of autofit-table and set-table-width
\* actions the table has at most one layout node and at most one width node,
\* and after an autofit-table action its layout and width nodes are those of
\* that action's mode alone, whatever ran before.
C22_AutoFitReplacesLayoutAndWidth ==
    direct.kind = "tbl" =>
        /\ Len(direct.element.tblLayout) <= 1
        /\ Len(direct.element.tblW) <= 1
        /\ (direct.calls >= 1 /\ direct.used.name = "autofit") =>
             /\ direct.element.tblLayout = ModeLayout(direct.used, direct.element.cols)
             /\ direct.element.tblW = ModeWidth(direct.used, direct.element.cols)

\* Window-fit after set-table-width on a table that was laid out as fixed.
C22_Witness ==
    /\ direct.calls = 2 /\ direct.kind = "tbl"
    /\ direct.history[1].tblLayout = <<"fixed">>
    /\ direct.history[2].tblW = <<Width(2880, "dxa")>>
    /\ direct.used = AutoFitTableAction("window", None)
    /\ direct.element.tblLayout = <<"autofit">>
    /\ direct.element.tblW = <<Width(5000, "pct")>>

\* An autofit-table call without a ratio has just ended on a table.
ModeAutoFitDone(mode) ==
    /\ direct.calls >= 1 /\ direct.kind = "tbl"
    /\ direct.used.name = "autofit"
    /\ ~direct.used.first_col_ratio.some
    /\ direct.used.autofit_type = mode

ContentsAndWindowFit ==
    /\ ModeAutoFitDone("contents") =>
         /\ direct.element.allow_autofit = "true"
         /\ direct.element.tblLayout = <<"autofit">>
         /\ Len(direct.element.tblW) = 1 /\ direct.element.tblW[1].type = "auto"
    /\ ModeAutoFitDone("window") =>
         /\ direct.element.allow_autofit = "true"
         /\ direct.element.tblLayout = <<"autofit">>
         /\ direct.element.tblW = <<Width(5000, "pct")>>

EqualColumns ==
    \A c \in 1..direct.element.cols :
        /\ IsTruncated(direct.element.grid[c], FixedTotalWidth, direct.element.cols)
        /\ direct.element.grid[c] = direct.element.grid[1]

\* C23 as claimed: without a ratio, content-fit gives autofit enabled,
\* layout autofit, width type auto; window-fit autofit enabled, layout
\* autofit, width 5000 pct; fixed-equal autofit disabled, layout fixed, total
\* width 6.5in as dxa and every column the integer part of 6.5in over the
\* column count.
C23_ModesAsClaimed ==
    /\ ContentsAndWindowFit
    /\ ModeAutoFitDone("fixed") =>
         /\ direct.element.allow_autofit = "false"
         /\ direct.element.tblLayout = <<"fixed">>
         /\ direct.element.tblW = <<Width(FixedTotalTwips, "dxa")>>
         /\ EqualColumns

\* C23, amended: as claimed for content-fit and window-fit; fixed-equal gives
\* autofit disabled and layout fixed, and, on a table with at least one
\* column, total width 6.5in as dxa and every column the integer part of
\* 6.5in over the column count; on a table without columns it writes no
\* width node.
C23_ModesFixedNeedsColumns ==
    /\ ContentsAndWindowFit
    /\ ModeAutoFitDone("fixed") =>
         /\ direct.element.allow_autofit = "false"
         /\ direct.element.tblLayout = <<"fixed">>
         /\ direct.element.tblW =
              (IF direct.element.cols > 0 THEN <<Width(FixedTotalTwips, "dxa")>>
               ELSE <<>>)
         /\ EqualColumns
         /\ direct.element.rows = Before.rows

\* 'Fixed' on a table of seven columns laid out as autofit: 849085 EMU each.
C23_Witness ==
    /\ ModeAutoFitDone("fixed")
    /\ direct.element.cols = 7
    /\ Before.tblLayout = <<"autofit">>
    /\ direct.element.grid = [c \in 1..7 |-> 849085]
    /\ direct.element.tblW = <<Width(9360, "dxa")>>

\* An autofit-table call that matches no mode has just ended on a table.
NoModeAutoFitDone ==
    /\ direct.calls >= 1 /\ direct.kind = "tbl"
    /\ direct.used.name = "autofit"
    /\ \/ /\ ~direct.used.first_col_ratio.some
          /\ direct.used.autofit_type \notin {"contents", "window", "fixed"}
       \/ direct.used.first_col_ratio.some /\ direct.element.cols = 0

\* C30: autofit-table without a ratio and with a type other than contents,
\* window or fixed (in any case of letters), and autofit-table with a ratio
\* on a table without columns, do not raise, remove the table's layout node
\* and width node, write none in their place and change nothing else.
C30_UnknownModeOnlyClears ==
    NoModeAutoFitDone =>
        /\ ~direct.raised
        /\ direct.element = [Before EXCEPT !.tblLayout = <<>>, !.tblW = <<>>]

\* The type 'other' on a table that was laid out as fixed, 1 inch wide.
C30_Witness ==
    /\ NoModeAutoFitDone
    /\ direct.calls = 2
    /\ direct.used.autofit_type = "other"
    /\ Before.tblLayout = <<"fixed">>
    /\ Before.tblW = <<Width(1440, "dxa")>>
    /\ direct.element.tblLayout = <<>> /\ direct.element.tblW = <<>>
    /\ direct.element # Before

\* ---------------------------------------------------------------- tab stops
\* Paragraphs with up to MaxTabs tab stops, from left to right, at whole
\* centimetres; a table and a section.
TabLists ==
    {t \in SeqsUpTo({Twips(Cm(c)) : c \in 1..MaxTabCm}, MaxTabs) :
        \A i \in 1..(Len(t) - 1) : t[i] <= t[i + 1]}

TabElements ==
    {[kind |-> "p", node |-> TabParagraph(t)] : t \in TabLists}
    \cup {[kind |-> "tbl", node |-> t] : t \in TableChoices}
    \cup {[kind |-> "sect", node |-> Sect]}

InitTabs == DirectInit(TabElements, NoAction)

NextTabs ==
    \/ \E c \in 1..MaxTabCm : ExecuteNew(SetTabStopAction(c), MaxCalls)
    \/ \E c \in 1..MaxTabCm : ExecuteNew(ClearAndSetTabStopAction(c), MaxCalls)

SpecTabs == InitTabs /\ [][NextTabs]_vars

\* seq without its i-th entry
Without(seq, i) == SubSeq(seq, 1, i - 1) \o SubSeq(seq, i + 1, Len(seq))

\* C25: on a paragraph, set-tab-stop keeps every tab stop there was and adds
\* exactly one, at the given offset, so that the count grows by one;
\* clear-and-set-tab-stop leaves exactly one tab stop, at the given offset,
\* whatever the list was; so after any sequence of the two that ends with
\* clear-and-set-tab-stop the paragraph has exactly one tab stop.
C25_TabStops ==
    (direct.calls >= 1 /\ direct.kind = "p") =>
        LET was == Before.tab_stops
            now == direct.element.tab_stops
            pos == Twips(direct.used.position)
        IN  /\ ~direct.raised
            /\ direct.used.name = "tab" =>
                 /\ Len(now) = Len(was) + 1
                 /\ \E i \in 1..Len(now) : now[i] = pos /\ Without(now, i) = was
            /\ direct.used.name = "cleartab" =>
                 Len(now) = 1 /\ now[1] = pos

\* Two tab stops at 1cm and 2cm, one more set at 1cm, then cleared and set
\* at 2cm (1134 twips).
C25_Witness ==
    /\ direct.calls = 2 /\ direct.kind = "p"
    /\ Len(direct.history[1].tab_stops) = 2
    /\ Len(direct.history[2].tab_stops) = 3
    /\ direct.history[2].tab_stops[1] = direct.history[2].tab_stops[2]
    /\ direct.used.name = "cleartab"
    /\ direct.element.tab_stops = <<1134>>

\* ------------------------------------------------- elements of another kind
\* The kinds of element an action handles (its isinstance tests)
Supported(action) ==
    IF action.name \in {"align", "tab", "cleartab"} THEN {"p"}
    ELSE IF action.name \in {"borders", "tablewidth", "colwidth", "autofit"} THEN {"tbl"}
    ELSE IF action.name \in {"replace", "font"} THEN {"p", "tbl"}
    ELSE {"sect"}

KindElements ==
    {[kind |-> "p", node |-> p] :
        p \in ParagraphChoices \cup {TabParagraph(<<Twips(Cm(1))>>)}}
    \cup {[kind |-> "tbl", node |-> t] :
             t \in TableChoices \cup {LayoutTable(2, 1, <<"fixed">>, <<>>, NoWidth, TRUE)}}
    \cup {[kind |-> "sect", node |-> s] :
             s \in {Sect, [Sect EXCEPT !.orientation = "landscape"]}}

\* Every action but set-section-orientation
KindActions ==
    {AlignParagraphAction("center"), SetTabStopAction(1), ClearAndSetTabStopAction(1),
     RemoveTableBordersAction, SetTableWidthAction(1440),
     SetTableColumnWidthAction(<<>>), SetTableColumnWidthAction(<<100, 200>>),
     AutoFitTableAction("contents", None), AutoFitTableAction("window", None),
     AutoFitTableAction("fixed", None), AutoFitTableAction("other", None),
     AutoFitTableAction("contents", Some(RatioDen \div 2)),
     ReplaceTextAction(Hello, Marker), SetFontSizeAction("number", 12),
     SetFontSizeAction("+", 2)}

InitKinds == DirectInit(KindElements, NoAction)

\* action.execute(element) on an element of a kind the action does not handle
NextKinds ==
    \E a \in KindActions : direct.kind \notin Supported(a) /\ ExecuteNew(a, MaxCalls)

SpecKinds == InitKinds /\ [][NextKinds]_vars

\* C24 as claimed: every action other than set-section-orientation, executed
\* on an element of a kind it does not handle, returns without raising and
\* leaves the element unchanged.
C24_WrongKindSilent ==
    direct.calls >= 1 => ~direct.raised /\ direct.element = Before

\* C24, amended: every action other than set-section-orientation and
\* set-table-column-width, executed on an element of a kind it does not
\* handle, returns without raising and leaves the element unchanged;
\* set-table-column-width on a paragraph or a section raises (TypeError) and
\* leaves the element unchanged.
C24_WrongKindSilentButColumnWidth ==
    direct.calls >= 1 =>
        /\ direct.element = Before
        /\ direct.raised <=> direct.used.name = "colwidth"

\* Autofit-table went by a paragraph, set-table-column-width then raised.
C24_Witness ==
    /\ direct.calls = 2 /\ direct.kind = "p"
    /\ direct.history[1] = direct.history[2]
    /\ direct.used.name = "colwidth"
    /\ direct.raised
    /\ direct.element = direct.history[1]

\* ------------------------------------------------- apply over many elements
\* Documents of up to MaxBatchBody tables: of one column, of two columns, and
\* of two columns without a row.
BatchBlocks ==
    {LayoutTable(1, 1, <<>>, <<>>, NoWidth, TRUE),
     LayoutTable(2, 1, <<>>, <<>>, NoWidth, TRUE),
     LayoutTable(2, 0, <<>>, <<>>, NoWidth, TRUE)}

\* Widths for two columns and for one (each raises on a table of the other
\* column count, before it writes), and the ratio autofit (which raises on a
\* table without rows, after it wrote the layout and the width).
BatchActions ==
    {SetTableColumnWidthAction(<<100, 200>>), SetTableColumnWidthAction(<<100>>),
     AutoFitTableAction("contents", Some(RatioDen \div 2))}

InitBatch == InitWith(Documents(BatchBlocks, MaxBatchBody))

NextBatch ==
    \/ Construct
    \/ SelectTables
    \/ \E s \in DOMAIN selectors, a \in BatchActions : Apply(s, a)

SpecBatch == InitBatch /\ [][NextBatch]_vars

\* The actions that test their argument before they write anything
ChecksFirst(action) == action.name \in {"colwidth", "orient"}

\* C26: when apply(action) runs over a selector holding e1..eN and the action
\* raises on ej, the error reaches the caller, e1..e(j-1) are as the action
\* left them, e(j+1)..eN are as they were before the call, and so is ej when
\* the action tests before it writes.
C26_ApplyStep ==
    (last'.op = "apply" /\ last'.raised) =>
        LET elems == Elements(last'.recv)
            action == last'.action
            j == Len(last'.executed)
        IN  /\ 1 <= j /\ j <= Len(elems)
            /\ last'.executed = SubSeq(elems, 1, j)
            /\ last'.result = 0
            /\ selectors' = selectors /\ lists' = lists
            /\ Len(document'.body) = Len(document.body)
            /\ \A k \in 1..(j - 1) :
                 LET r == ExecuteOn(action, "tbl", document.body[elems[k].node])
                 IN  ~r.raised /\ document'.body[elems[k].node] = r.element
            /\ ExecuteOn(action, "tbl", document.body[elems[j].node]).raised
            /\ ChecksFirst(action) =>
                 document'.body[elems[j].node] = document.body[elems[j].node]
            /\ \A k \in (j + 1)..Len(elems) :
                 document'.body[elems[k].node] = document.body[elems[k].node]
            /\ \A i \in 1..Len(document.body) :
                 (\A k \in 1..Len(elems) : elems[k].node # i) =>
                    document'.body[i] = document.body[i]

C26_NoRollback == [][C26_ApplyStep]_vars

\* Widths for two columns applied to tables of two, one and two columns: the
\* first has its widths, the call raised at the second, the third is as in
\* the document that was loaded.
C26_Witness ==
    /\ last.op = "apply" /\ last.raised
    /\ last.action = SetTableColumnWidthAction(<<100, 200>>)
    /\ Len(Elements(last.recv)) = 3
    /\ Len(last.executed) = 2
    /\ Len(document.body) = 4
    /\ document.body[1].cols = 2 /\ Len(document.body[1].rows) = 1
    /\ document.body[1].rows[1][2].tcW = Width(200, "dxa")
    /\ document.body[2] = LayoutTable(1, 1, <<>>, <<>>, NoWidth, TRUE)
    /\ document.body[3] = LayoutTable(2, 1, <<>>, <<>>, NoWidth, TRUE)

\* ------------------------------------------------ text split over two runs
\* Paragraphs that read "mh": in two runs, in one run; "h"; and "mhmh" with
\* the first "mh" in one run and the second in two.
SplitChoices ==
    {Para(FALSE, <<Marker, Hello>>), Para(FALSE, <<MarkerHello>>),
     Para(FALSE, <<Hello>>), Para(TRUE, <<MarkerHello, Marker, Hello>>)}

Mark == <<"x">>

InitSplit == InitWith(Documents(SplitChoices, MaxSplitBody))

NextSplit ==
    \/ Construct
    \/ SelectParagraphs
    \/ \E s \in DOMAIN selectors : Where(s, RegexCondition(MarkerHello))
    \/ \E s \in DOMAIN selectors : Apply(s, ReplaceTextAction(MarkerHello, Mark))

SpecSplit == InitSplit /\ [][NextSplit]_vars

\* where(RegexCondition("mh")) was called on all paragraphs and the next call
\* is apply(ReplaceTextAction("mh", "x")) on the selector it returned.
SplitStep ==
    /\ last.op = "where" /\ ~last.raised
    /\ HoldsAllParagraphs(last.recv)
    /\ last'.op = "apply"
    /\ last'.recv = last.result

\* C28: selection is by paragraph, replacement by run: a paragraph that holds
\* the old text only across a run boundary is selected by the regular
\* expression and acted on, and replace-text leaves each of its runs, and so
\* its text, as it was; in any paragraph only the occurrences inside one run
\* are replaced.
C28_SplitTextSelectedNotReplaced ==
    [][SplitStep =>
          \A i \in 1..Len(document.body) :
             LET was == document.body[i]
                 now == document'.body[i]
                 selected == \E k \in 1..Len(Elements(last.result)) :
                                Elements(last.result)[k].node = i
                 executed == \E k \in 1..Len(last'.executed) :
                                last'.executed[k].node = i
             IN  was.kind = "p" =>
                   /\ selected <=> Contains(ParagraphText(was), MarkerHello)
                   /\ executed <=> selected
                   /\ Len(now.runs) = Len(was.runs)
                   /\ \A j \in 1..Len(was.runs) :
                        now.runs[j] = (IF selected /\ was.runs[j] = MarkerHello
                                       THEN Mark ELSE was.runs[j])
                   /\ (Contains(ParagraphText(was), MarkerHello)
                       /\ \A j \in 1..Len(was.runs) : ~Contains(was.runs[j], MarkerHello))
                        => /\ selected
                           /\ now = was
                           /\ Contains(ParagraphText(now), MarkerHello)]_vars

\* The chain has run; the paragraph "m" + "h" was acted on and reads "mh" as
\* before, the paragraph "mh" + "m" + "h" reads "xmh".
C28_Witness ==
    /\ last.op = "apply" /\ ~last.raised
    /\ last.action = ReplaceTextAction(MarkerHello, Mark)
    /\ Len(last.executed) = 2
    /\ Len(document.body) = 4
    /\ last.executed[1].node = 1 /\ last.executed[2].node = 3
    /\ document.body[1].runs = <<Marker, Hello>>
    /\ document.body[2].runs = <<Hello>>
    /\ document.body[3].runs = <<Mark, Marker, Hello>>
    /\ Contains(ParagraphText(document.body[1]), MarkerHello)
====
